---- MODULE Spec2Model ----
(***************************************************************************)
(* Model of omopcloudetl_core's workflow compilation pipeline:             *)
(*   compilation/compiler.py  WorkflowCompiler (_validate_dag,             *)
(*                            _build_context, compile)                     *)
(*   sql_tools.py             render_jinja_template, apply_query_tag,      *)
(*                            split_sql_script                             *)
(* Python values are modelled as follows.  A str that the code only        *)
(* passes around is a TLA+ string; a text that the code assembles or       *)
(* takes apart is a sequence of chunks.  An Optional value is a sequence   *)
(* of length 0 (None) or 1.  A raised exception is a record                *)
(* [cls, kind, args]: its class, the message template, and the values the  *)
(* message interpolates, as <<label, value>> pairs.                        *)
(***************************************************************************)
EXTENDS Integers, Sequences, FiniteSets, TLC

VARIABLES
    \* SpecDag: one call of WorkflowCompiler._validate_dag
    dag_steps,          \* the step list handed to _validate_dag
    dag_result,         \* <<>> before the call, <<outcome>> after it
    \* SpecRender: one call of render_jinja_template
    template_str,       \* the template, a sequence of parts
    render_context,     \* the context dictionary
    render_result,      \* <<>> before the call, <<outcome>> after it
    \* Spec: one call of WorkflowCompiler.compile
    project_config,     \* self.project_config
    workflow_config,    \* argument workflow_config
    workflow_base_path, \* argument workflow_base_path
    pc,                 \* "start", "loop", "done", "failed" ("off": no call)
    execution_id,       \* <<>> until uuid4() has run, then <<id>>
    context,            \* <<>> until _build_context() has run, then <<dict>>
    next_step,          \* index of the step the for loop is at
    compiled_steps,     \* the list compiled_steps
    effects,            \* files opened, specifications fetched, generator calls
    outcome,            \* <<>> while running, then <<exception or plan>>
    \* SpecTag: one call of apply_query_tag
    tag_call_sql,       \* argument sql
    tag_call_context,   \* argument context, its items in insertion order
    tag_call_result,    \* <<>> before the call, <<tagged sql>> after it
    \* SpecSplit: one call of split_sql_script
    script_statements,  \* the statements the script was written from
    split_call_script,  \* argument sql_script
    split_call_result,  \* <<>> before the call, <<list of statements>> after it
    \* SpecTwice: two calls of WorkflowCompiler.compile, one after the other
    previous_call,      \* <<>> during the first call, then <<what it did>>
    \* SpecFetch: calls of SpecificationManager.fetch_specification that
    \* share one cache directory
    spec_cache,         \* self.cache: the entries, key by key
    fetch_calls,        \* the calls, in the order they began
    \* SpecConfig: one call of ConfigManager.load_project_config
    config_file,        \* what is at config_path
    config_environ,     \* os.environ, as far as the secrets provider reads it
    config_result       \* <<>> before the call, <<outcome>> after it

dag_vars == <<dag_steps, dag_result>>
render_vars == <<template_str, render_context, render_result>>
compile_vars == <<project_config, workflow_config, workflow_base_path, pc,
                  execution_id, context, next_step, compiled_steps, effects,
                  outcome>>
tag_vars == <<tag_call_sql, tag_call_context, tag_call_result>>
split_vars == <<script_statements, split_call_script, split_call_result>>
again_vars == <<previous_call>>
fetch_vars == <<spec_cache, fetch_calls>>
config_vars == <<config_file, config_environ, config_result>>
vars == <<dag_vars, render_vars, compile_vars, tag_vars, split_vars, again_vars,
          fetch_vars, config_vars>>

(***************************************************************************)
(* Bounds of the DAG specification.                                        *)
(***************************************************************************)
MaxDagSteps == 2
MaxDeps == 1

Names == {"a", "b", "c"}

RECURSIVE SeqsUpTo(_, _)
SeqsUpTo(S, n) ==
    IF n = 0 THEN {<<>>}
    ELSE LET shorter == SeqsUpTo(S, n - 1)
         IN  shorter \cup {Append(s, x) : s \in shorter, x \in S}

(***************************************************************************)
(* Outcomes of a call: a normal return or a raised exception.              *)
(***************************************************************************)
Returned(v) == [ok |-> TRUE, value |-> v]
Raised(cls, kind, args) == [ok |-> FALSE, cls |-> cls, kind |-> kind, args |-> args]

(***************************************************************************)
(* WorkflowCompiler._validate_dag                                          *)
(***************************************************************************)
\* step_names = {step.name for step in steps}
StepNameSet(steps) == {steps[k].name : k \in 1..Len(steps)}

\* The (step index, dependency index) positions the nested for loops visit.
DepPositions(steps) ==
    UNION {{<<k, j>> : j \in 1..Len(steps[k].depends_on)} : k \in 1..Len(steps)}

\* The positions whose dependency is not in step_names, and the one the
\* loops meet first: there the function raises.
UndefinedPositions(steps) ==
    {p \in DepPositions(steps) :
        steps[p[1]].depends_on[p[2]] \notin StepNameSet(steps)}

FirstUndefined(steps) ==
    CHOOSE p \in UndefinedPositions(steps) :
        \A q \in UndefinedPositions(steps) :
            \/ p[1] < q[1]
            \/ (p[1] = q[1] /\ p[2] <= q[2])

\* graph.add_node(step.name) / graph.add_edge(dep, step.name)
GraphNodes(steps) ==
    StepNameSet(steps)
        \cup {steps[p[1]].depends_on[p[2]] : p \in DepPositions(steps)}

\* Mutant: a step's dependency on itself adds no edge.
GraphEdgesNoSelfLoops(steps) ==
    {<<steps[p[1]].depends_on[p[2]], steps[p[1]].name>> :
        p \in {q \in DepPositions(steps) :
                steps[q[1]].depends_on[q[2]] # steps[q[1]].name}}

GraphEdges(steps) ==
    {<<steps[p[1]].depends_on[p[2]], steps[p[1]].name>> : p \in DepPositions(steps)}

\* nx.is_directed_acyclic_graph: generate the topological generations
\* (repeatedly remove the nodes of in-degree zero); the graph is acyclic
\* exactly when every node has been removed.
RECURSIVE TopologicalRemainder(_, _)
TopologicalRemainder(nodes, edges) ==
    LET live == {e \in edges : e[1] \in nodes /\ e[2] \in nodes}
        zero == {n \in nodes : ~\E e \in live : e[2] = n}
    IN  IF zero = {} THEN nodes
        ELSE TopologicalRemainder(nodes \ zero, live)

\* Mutant: every graph passes for acyclic.
IsDirectedAcyclicGraphAlways(nodes, edges) == TRUE

IsDirectedAcyclicGraph(nodes, edges) == TopologicalRemainder(nodes, edges) = {}

\* Mutant: the message names the dependency where it should name the step.
ValidateDagNamesDependencyTwice(steps) ==
    IF UndefinedPositions(steps) # {}
    THEN LET p == FirstUndefined(steps)
         IN  Raised("WorkflowError", "undefined_dependency",
                    << <<"step", steps[p[1]].depends_on[p[2]]>>,
                       <<"dep", steps[p[1]].depends_on[p[2]]>> >>)
    ELSE IF ~IsDirectedAcyclicGraph(GraphNodes(steps), GraphEdges(steps))
    THEN Raised("WorkflowError", "cycle", <<>>)
    ELSE Returned("None")

\* Mutant: the acyclicity check is left out.
ValidateDagUndefinedOnly(steps) ==
    IF UndefinedPositions(steps) # {}
    THEN LET p == FirstUndefined(steps)
         IN  Raised("WorkflowError", "undefined_dependency",
                    << <<"step", steps[p[1]].name>>,
                       <<"dep", steps[p[1]].depends_on[p[2]]>> >>)
    ELSE Returned("None")

ValidateDag(steps) ==
    IF UndefinedPositions(steps) # {}
    THEN LET p == FirstUndefined(steps)
         IN  Raised("WorkflowError", "undefined_dependency",
                    << <<"step", steps[p[1]].name>>,
                       <<"dep", steps[p[1]].depends_on[p[2]]>> >>)
    ELSE IF ~IsDirectedAcyclicGraph(GraphNodes(steps), GraphEdges(steps))
    THEN Raised("WorkflowError", "cycle", <<>>)
    ELSE Returned("None")


(***************************************************************************)
(* Python values seen by Jinja2: a str, a dict (a function from its keys   *)
(* to values), and the bound method that getattr returns for a name such   *)
(* as "items" on a dict.  Every value is tagged with its type.             *)
(***************************************************************************)
PyStr(s) == [t |-> "str", v |-> s]
PyDict(f) == [t |-> "dict", v |-> f]
PyMethod(owner, name) == [t |-> "method", v |-> <<owner, name>>]
StrictUndefined(name) == [t |-> "undefined", v |-> name]

\* Attributes that Python's getattr finds on every dict and on every str
\* (representatives of dir(dict) and dir(str)).
DictAttributes == {"items", "keys", "values", "get", "copy"}
StrAttributes == {"upper", "lower", "format"}

\* Names every jinja2 Environment defines (jinja2.defaults.DEFAULT_NAMESPACE).
JinjaGlobals == {"range", "dict", "lipsum", "cycler", "joiner", "namespace"}

Keys(d) == DOMAIN d.v

(***************************************************************************)
(* render_jinja_template: Environment(undefined=StrictUndefined),          *)
(* from_string(template_str).render(context).  A template is a sequence    *)
(* of parts: literal text ("lit") or an output expression {{ a.b.c }}      *)
(* ("expr") given by its path of names.                                    *)
(***************************************************************************)
Lit(s) == [k |-> "lit", s |-> s, path |-> <<>>]
Expr(path) == [k |-> "expr", s |-> "", path |-> path]

\* Context.resolve_or_missing: the render context, then the environment's
\* globals, else an undefined.
ResolveName(ctx, name) ==
    IF name \in Keys(ctx) THEN ctx.v[name]
    ELSE IF name \in JinjaGlobals THEN PyMethod("globals", name)
    ELSE StrictUndefined(name)

\* Environment.getattr(obj, attribute): Python's getattr(obj, attribute)
\* first, then obj[attribute], else an undefined.  Called on an undefined,
\* StrictUndefined.__getattr__ raises.
JinjaGetattrKeysOnly(obj, attribute) ==
    CASE obj.t = "undefined" -> Raised("UndefinedError", "is undefined", << <<"name", obj.v>> >>)
      [] obj.t = "dict" ->
            IF attribute \in Keys(obj) THEN Returned(obj.v[attribute])
            ELSE Returned(StrictUndefined(attribute))
      [] OTHER -> Returned(StrictUndefined(attribute))

JinjaGetattr(obj, attribute) ==
    CASE obj.t = "undefined" -> Raised("UndefinedError", "is undefined", << <<"name", obj.v>> >>)
      [] obj.t = "dict" ->
            IF attribute \in DictAttributes THEN Returned(PyMethod("dict", attribute))
            ELSE IF attribute \in Keys(obj) THEN Returned(obj.v[attribute])
            ELSE Returned(StrictUndefined(attribute))
      [] obj.t = "str" ->
            IF attribute \in StrAttributes THEN Returned(PyMethod("str", attribute))
            ELSE Returned(StrictUndefined(attribute))
      [] OTHER -> Returned(StrictUndefined(attribute))

\* The value of a.b.c: resolve a, then getattr for each further name.
RECURSIVE EvalAttrs(_, _)
EvalAttrs(obj, names) ==
    IF names = <<>> THEN Returned(obj)
    ELSE LET r == JinjaGetattr(obj, Head(names))
         IN  IF r.ok THEN EvalAttrs(r.value, Tail(names)) ELSE r

EvalPath(ctx, path) == EvalAttrs(ResolveName(ctx, Head(path)), Tail(path))

\* str() of the value of an output expression: printing a StrictUndefined
\* raises; any other object prints (a str as itself, the rest as its repr).
ToOutput(val) ==
    CASE val.t = "undefined" -> Raised("UndefinedError", "is undefined", << <<"name", val.v>> >>)
      [] val.t = "str" -> Returned(val.v)
      [] val.t = "dict" -> Returned("{...}")
      [] OTHER -> Returned("<built-in method>")

RenderPart(ctx, part) ==
    IF part.k = "lit" THEN Returned(part.s)
    ELSE LET r == EvalPath(ctx, part.path)
         IN  IF r.ok THEN ToOutput(r.value) ELSE r

\* template.render: the parts in order; the first exception ends it.
RECURSIVE RenderParts(_, _, _)
RenderParts(ctx, parts, out) ==
    IF parts = <<>> THEN Returned(out)
    ELSE LET r == RenderPart(ctx, Head(parts))
         IN  IF r.ok THEN RenderParts(ctx, Tail(parts), Append(out, r.value)) ELSE r

\* except exceptions.UndefinedError as e: raise CompilationError(...)
RenderJinjaTemplate(template, ctx) ==
    LET r == RenderParts(ctx, template, <<>>)
    IN  IF r.ok THEN r
        ELSE Raised("CompilationError", "Jinja rendering failed", r.args)

(***************************************************************************)
(* SpecRender: render_jinja_template applied to every bounded template.    *)
(***************************************************************************)
MaxParts == 1
MaxDepth == 3

PathNames == {"schemas", "source", "items", "nope"}

Paths == SeqsUpTo(PathNames, MaxDepth) \ {<<>>}
Parts == {Lit("SELECT * FROM ")} \cup {Expr(p) : p \in Paths}

\* The context compile builds for the schema mapping of the test fixture,
\* and the empty context.
FixtureSchemas == PyDict([source |-> PyStr("raw"), cdm |-> PyStr("cdm_schema")])
RenderContexts == {PyDict([schemas |-> FixtureSchemas]), PyDict(<<>>)}

(***************************************************************************)
(* apply_query_tag.  A text is a sequence of units: each character that    *)
(* matters (a quote, a backslash, a line break, a blank, a bracket, the    *)
(* characters of the comment markers) is a unit of its own, and a run of   *)
(* other characters is one unit.  The values of a tag context are Python   *)
(* values: strings (a text), integers, booleans, lists, and dicts given by *)
(* their items in insertion order.                                         *)
(***************************************************************************)
PyText(units) == [t |-> "text", units |-> units]
PyInt(n) == [t |-> "int", n |-> n]
PyBool(b) == [t |-> "bool", b |-> b]
PyList(items) == [t |-> "list", items |-> items]
PyMapping(pairs) == [t |-> "mapping", pairs |-> pairs]

RECURSIVE Concat(_)
Concat(texts) == IF texts = <<>> THEN <<>> ELSE Head(texts) \o Concat(Tail(texts))

\* Mutant: a string is written between quotes as it is.
EscapeUnitNothing(u) == <<u>>

\* json.dumps, one character of a string: the double quote, the backslash
\* and the line break are written as a backslash escape, any other
\* character as itself.
EscapeUnit(u) ==
    IF u = "\"" THEN <<"\\", "\"">>
    ELSE IF u = "\\" THEN <<"\\", "\\">>
    ELSE IF u = "\n" THEN <<"\\", "n">>
    ELSE <<u>>

JsonString(units) ==
    <<"\"">> \o Concat([i \in 1..Len(units) |-> EscapeUnit(units[i])]) \o <<"\"">>

\* json.dumps of a value, with the default separators ", " and ": ".  The
\* items of a dict are written in the dict's own (insertion) order, and a
\* list or a dict inside a dict is written as a nested array or object.
RECURSIVE JsonEncode(_)
RECURSIVE JsonElements(_)
RECURSIVE JsonItems(_)
JsonElements(items) ==
    IF items = <<>> THEN <<>>
    ELSE JsonEncode(items[1])
            \o (IF Len(items) > 1 THEN <<",", " ">> ELSE <<>>)
            \o JsonElements(Tail(items))

JsonItems(pairs) ==
    IF pairs = <<>> THEN <<>>
    ELSE JsonString(<<pairs[1][1]>>) \o <<":", " ">> \o JsonEncode(pairs[1][2])
            \o (IF Len(pairs) > 1 THEN <<",", " ">> ELSE <<>>)
            \o JsonItems(Tail(pairs))

JsonEncode(value) ==
    IF value.t = "text" THEN JsonString(value.units)
    ELSE IF value.t = "int" THEN <<ToString(value.n)>>
    ELSE IF value.t = "bool" THEN (IF value.b THEN <<"true">> ELSE <<"false">>)
    ELSE IF value.t = "list" THEN <<"[">> \o JsonElements(value.items) \o <<"]">>
    ELSE <<"{">> \o JsonItems(value.pairs) \o <<"}">>

JsonDumps(pairs) == JsonEncode(PyMapping(pairs))

TagLabel == <<"/", "*", " ", "OmopCloudEtlContext", ":", " ">>
TagEnd == <<" ", "*", "/">>

\* tag = f"/* OmopCloudEtlContext: {json.dumps(context)} */"
QueryTag(tag_context) == TagLabel \o JsonDumps(tag_context) \o TagEnd

\* return f"{tag}\n{sql}"
ApplyQueryTag(sql, tag_context) == QueryTag(tag_context) \o <<"\n">> \o sql

(***************************************************************************)
(* split_sql_script.  A text is a sequence of units: each character that   *)
(* matters to a lexer (quotes, the characters of the comment markers,      *)
(* semicolon, parentheses, blank, line break) is a unit of its own, and a  *)
(* run of other characters (a word, a number, a name) is one unit.         *)
(* sqlparse is modelled by what it does with such a text: the lexer's      *)
(* rules for comments, quoted names, string literals and dollar-quoted     *)
(* literals, the statement splitter's parenthesis level and end-of-        *)
(* statement rule, the comment-stripping filter and the serializer.  The   *)
(* words of the model are not SQL keywords (BEGIN, END, CREATE, DECLARE,   *)
(* GO), and a backslash is an ordinary character of a word.                *)
(***************************************************************************)
WhitespaceChunks == {" ", "\n"}
\* The backtick character, which a string of this language cannot hold.
Backtick == "<backtick>"

LexerUnits == {";", "(", ")", " ", "\n", "'", "\"", Backtick, "$", "-", "/", "*"}

IsWord(u) == u \notin LexerUnits

Token(ttype, value) == [ttype |-> ttype, value |-> value]

\* (--|# ).*?(\r\n|\r|\n|$): the comment runs to the end of its line, the
\* line break included; i is the first position after the marker.
RECURSIVE LineCommentEnd(_, _)
LineCommentEnd(text, i) ==
    IF i > Len(text) THEN Len(text)
    ELSE IF text[i] = "\n" THEN i
    ELSE LineCommentEnd(text, i + 1)

\* /\*[\s\S]*?\*/: the first "*/" after the opening marker; 0 when there
\* is none (the rule does not match).
RECURSIVE BlockCommentEnd(_, _)
BlockCommentEnd(text, i) ==
    IF i + 1 > Len(text) THEN 0
    ELSE IF text[i] = "*" /\ text[i + 1] = "/" THEN i + 1
    ELSE BlockCommentEnd(text, i + 1)

\* '(''|[^'])*', and the same rule for the double quote and the backtick:
\* the position of the closing quote, a doubled
\* quote being part of the literal whenever the rest can still be closed;
\* 0 when the literal is not closed.
RECURSIVE QuotedEnd(_, _, _)
QuotedEnd(text, q, i) ==
    IF i > Len(text) THEN 0
    ELSE IF text[i] # q THEN QuotedEnd(text, q, i + 1)
    ELSE IF i + 1 <= Len(text) /\ text[i + 1] = q /\ QuotedEnd(text, q, i + 2) # 0
    THEN QuotedEnd(text, q, i + 2)
    ELSE i

\* Mutant: the lexer has no rule for dollar-quoted literals.
DollarDelimiterNone(text, i) == <<>>

\* The delimiter of a dollar-quoted literal that opens at i: $$ or $tag$,
\* not directly after a word, a double quote or a dollar; <<>> when no
\* delimiter opens at i.
DollarDelimiter(text, i) ==
    IF text[i] # "$" \/ (i > 1 /\ (IsWord(text[i - 1]) \/ text[i - 1] \in {"\"", "$"}))
    THEN <<>>
    ELSE IF i + 1 <= Len(text) /\ text[i + 1] = "$" THEN <<"$", "$">>
    ELSE IF i + 2 <= Len(text) /\ IsWord(text[i + 1]) /\ text[i + 2] = "$"
    THEN <<"$", text[i + 1], "$">>
    ELSE <<>>

\* ((?<![\w\"\$])\$(?:[_A-Z]\w*)?\$)[\s\S]*?\1: the first repetition of the
\* opening delimiter at or after position j; 0 when there is none.
RECURSIVE DollarQuoteEnd(_, _, _)
DollarQuoteEnd(text, delim, j) ==
    IF j + Len(delim) - 1 > Len(text) THEN 0
    ELSE IF SubSeq(text, j, j + Len(delim) - 1) = delim THEN j + Len(delim) - 1
    ELSE DollarQuoteEnd(text, delim, j + 1)

\* The token that starts at position i: its type and its last position.
\* A quote, a "/*" or a "$" whose rule does not match is a token of its
\* own, as any other character.
TokenAt(text, i) ==
    LET u == text[i]
        follows(c) == i < Len(text) /\ text[i + 1] = c
        delim == DollarDelimiter(text, i)
    IN  IF u = "-" /\ follows("-")
        THEN [ttype |-> "Comment.Single", end |-> LineCommentEnd(text, i + 2)]
        ELSE IF u = "/" /\ follows("*") /\ BlockCommentEnd(text, i + 2) # 0
        THEN [ttype |-> "Comment.Multiline", end |-> BlockCommentEnd(text, i + 2)]
        ELSE IF u = "\n" THEN [ttype |-> "Whitespace.Newline", end |-> i]
        ELSE IF u = " " THEN [ttype |-> "Whitespace", end |-> i]
        ELSE IF u = Backtick /\ QuotedEnd(text, Backtick, i + 1) # 0
        THEN [ttype |-> "Name", end |-> QuotedEnd(text, Backtick, i + 1)]
        ELSE IF delim # <<>> /\ DollarQuoteEnd(text, delim, i + Len(delim)) # 0
        THEN [ttype |-> "Literal", end |-> DollarQuoteEnd(text, delim, i + Len(delim))]
        ELSE IF u = "'" /\ QuotedEnd(text, "'", i + 1) # 0
        THEN [ttype |-> "String.Single", end |-> QuotedEnd(text, "'", i + 1)]
        ELSE IF u = "\"" /\ QuotedEnd(text, "\"", i + 1) # 0
        THEN [ttype |-> "String.Symbol", end |-> QuotedEnd(text, "\"", i + 1)]
        ELSE IF u \in {";", "(", ")"} THEN [ttype |-> "Punctuation", end |-> i]
        ELSE [ttype |-> "Other", end |-> i]

\* lexer.tokenize: the tokens of the text from position i on
RECURSIVE Tokenize(_, _)
Tokenize(text, i) ==
    IF i > Len(text) THEN <<>>
    ELSE LET at == TokenAt(text, i)
         IN  <<Token(at.ttype, SubSeq(text, i, at.end))>> \o Tokenize(text, at.end + 1)

\* str(statement): the text of a token list
RECURSIVE TokensText(_)
TokensText(tokens) ==
    IF tokens = <<>> THEN <<>> ELSE Head(tokens).value \o TokensText(Tail(tokens))

IsComment(tok) == tok.ttype \in {"Comment.Single", "Comment.Multiline"}
IsWhitespaceToken(tok) == tok.ttype \in {"Whitespace", "Whitespace.Newline"}
IsPunctuation(tok, c) == tok.ttype = "Punctuation" /\ tok.value = <<c>>

\* StatementSplitter._change_splitlevel, for the tokens of the model:
\* parentheses open and close a level.
ChangeSplitlevel(tok) ==
    IF IsPunctuation(tok, "(") THEN 1
    ELSE IF IsPunctuation(tok, ")") THEN 0 - 1
    ELSE 0

\* The token types that still belong to a statement after its semicolon.
EOS_TTYPE == {"Whitespace", "Comment.Single"}

\* StatementSplitter.process: a statement is finished by a semicolon at
\* level 0 or below; blanks and line comments that follow the semicolon
\* still belong to it, and the first other token starts the next
\* statement.  What is left at the end is a statement unless it is all
\* whitespace.
RECURSIVE StatementSplitter(_, _, _, _, _)
StatementSplitter(stream, tokens, level, consume_ws, done) ==
    IF stream = <<>>
    THEN IF tokens # <<>> /\ ~(\A i \in 1..Len(tokens) : IsWhitespaceToken(tokens[i]))
         THEN Append(done, tokens)
         ELSE done
    ELSE LET tok == Head(stream)
             finished == consume_ws /\ tok.ttype \notin EOS_TTYPE
             new_level == (IF finished THEN 0 ELSE level) + ChangeSplitlevel(tok)
             ends == new_level <= 0 /\ IsPunctuation(tok, ";")
         IN  StatementSplitter(
                 Tail(stream),
                 Append(IF finished THEN <<>> ELSE tokens, tok),
                 new_level,
                 (consume_ws /\ ~finished) \/ ends,
                 IF finished THEN Append(done, tokens) ELSE done)

\* The token a stripped comment leaves behind: a line break when the
\* comment ends with one, a blank otherwise.
InsertToken(comment) ==
    IF comment.value[Len(comment.value)] = "\n"
    THEN Token("Whitespace.Newline", <<"\n">>)
    ELSE Token("Whitespace", <<" ">>)

\* Mutant: the comments stay in the statement.
StripCommentsFilterKeepsComments(todo, kept) == kept \o todo

\* StripCommentsFilter on the tokens of one statement, from left to right:
\* a comment is replaced by its insert token, or simply removed at the
\* start of the statement and after an opening parenthesis.
RECURSIVE StripCommentsFilter(_, _)
StripCommentsFilter(todo, kept) ==
    IF todo = <<>> THEN kept
    ELSE IF ~IsComment(Head(todo))
    THEN StripCommentsFilter(Tail(todo), Append(kept, Head(todo)))
    ELSE IF kept = <<>> \/ IsPunctuation(kept[Len(kept)], "(")
    THEN StripCommentsFilter(Tail(todo), kept)
    ELSE StripCommentsFilter(Tail(todo), Append(kept, InsertToken(Head(todo))))

\* SerializerUnicode: the lines of a statement without their trailing
\* blanks.  The tokens are visited from the last one; line_end tells that
\* only blanks lie between the token and the end of its line.
RECURSIVE SerializerUnicode(_, _)
SerializerUnicode(tokens, line_end) ==
    IF tokens = <<>> THEN <<>>
    ELSE LET last == tokens[Len(tokens)]
             front == SubSeq(tokens, 1, Len(tokens) - 1)
         IN  IF last.ttype = "Whitespace" /\ line_end
             THEN SerializerUnicode(front, TRUE)
             ELSE Append(SerializerUnicode(front, last.ttype = "Whitespace.Newline"), last)

\* sqlparse.format(sql_script, strip_comments=True): the statements of the
\* script, each without its comments and serialized, joined together.
SqlparseFormat(text) ==
    LET statements == StatementSplitter(Tokenize(text, 1), <<>>, 0, FALSE, <<>>)
    IN  Concat([i \in 1..Len(statements) |->
                  TokensText(SerializerUnicode(
                      StripCommentsFilter(statements[i], <<>>), TRUE))])

\* str.strip()
RECURSIVE LStrip(_)
LStrip(text) ==
    IF text # <<>> /\ Head(text) \in WhitespaceChunks THEN LStrip(Tail(text)) ELSE text

RECURSIVE RStrip(_)
RStrip(text) ==
    IF text # <<>> /\ text[Len(text)] \in WhitespaceChunks
    THEN RStrip(SubSeq(text, 1, Len(text) - 1))
    ELSE text

Strip(text) == RStrip(LStrip(text))

\* sqlparse.split(text): the text of each statement, stripped.
SqlparseSplit(text) ==
    LET statements == StatementSplitter(Tokenize(text, 1), <<>>, 0, FALSE, <<>>)
    IN  [i \in 1..Len(statements) |-> Strip(TokensText(statements[i]))]

\* The body of the for loop over the statements: strip, drop the trailing
\* semicolon, strip again.
CleanStatement(stmt) ==
    LET stripped == Strip(stmt)
    IN  IF stripped # <<>> /\ stripped[Len(stripped)] = ";"
        THEN Strip(SubSeq(stripped, 1, Len(stripped) - 1))
        ELSE stripped

SplitSqlScript(sql_script) ==
    LET statements == SqlparseSplit(SqlparseFormat(sql_script))
        cleaned == [i \in 1..Len(statements) |-> CleanStatement(statements[i])]
    IN  SelectSeq(cleaned, LAMBDA s : s # <<>>)

(***************************************************************************)
(* Workflow steps (models/workflow.py) and the compiled plan.              *)
(***************************************************************************)
DMLWorkflowStep(name, depends_on, dml_file) ==
    [name |-> name, depends_on |-> depends_on, type |-> "dml", dml_file |-> dml_file]

DDLWorkflowStep(name, depends_on, cdm_version, target_schema_ref) ==
    [name |-> name, depends_on |-> depends_on, type |-> "ddl",
     cdm_version |-> cdm_version, target_schema_ref |-> target_schema_ref,
     options |-> <<>>]

SQLWorkflowStep(name, depends_on, sql_file) ==
    [name |-> name, depends_on |-> depends_on, type |-> "sql", sql_file |-> sql_file]

\* options, and each option map in it, is a dict given by its items: a
\* sequence of <<key, value>> pairs.
BulkLoadWorkflowStep(name, depends_on, source_uri_pattern, target_table, target_schema_ref, options) ==
    [name |-> name, depends_on |-> depends_on, type |-> "bulk_load",
     source_uri_pattern |-> source_uri_pattern, target_table |-> target_table,
     target_schema_ref |-> target_schema_ref, options |-> options]

\* Mutant: the compiled step loses its dependencies.
CompiledSQLStepNoDeps(name, depends_on, sql_statements) ==
    [name |-> name, depends_on |-> <<>>, type |-> "sql",
     sql_statements |-> sql_statements]

CompiledSQLStep(name, depends_on, sql_statements) ==
    [name |-> name, depends_on |-> depends_on, type |-> "sql",
     sql_statements |-> sql_statements]

\* Mutant: the two option maps change places.
CompiledBulkLoadStepSwapped(name, depends_on, source_uri, target_schema, target_table, fmt, load) ==
    [name |-> name, depends_on |-> depends_on, type |-> "bulk_load",
     source_uri |-> source_uri, target_schema |-> target_schema,
     target_table |-> target_table,
     source_format_options |-> load,
     load_options |-> fmt]

CompiledBulkLoadStep(name, depends_on, source_uri, target_schema, target_table, fmt, load) ==
    [name |-> name, depends_on |-> depends_on, type |-> "bulk_load",
     source_uri |-> source_uri, target_schema |-> target_schema,
     target_table |-> target_table,
     source_format_options |-> fmt,
     load_options |-> load]

\* Mutant: the context snapshot of the plan carries the execution id too.
CompiledWorkflowPlanIdInSnapshot(id, workflow_name, concurrency, steps, context_snapshot) ==
    [execution_id |-> id, workflow_name |-> workflow_name,
     concurrency |-> concurrency, steps |-> steps,
     context_snapshot |-> PyDict([schemas |-> context_snapshot.v["schemas"],
                                  execution_id |-> PyStr(id)])]

CompiledWorkflowPlan(id, workflow_name, concurrency, steps, context_snapshot) ==
    [execution_id |-> id, workflow_name |-> workflow_name,
     concurrency |-> concurrency, steps |-> steps,
     context_snapshot |-> context_snapshot]

(***************************************************************************)
(* Helpers of compile.                                                     *)
(***************************************************************************)
\* pathlib: base / file.  A path is its sequence of components; an absolute
\* path starts with "/", and joining an absolute path replaces the base.
PathJoin(base, file) ==
    IF file # <<>> /\ Head(file) = "/" THEN file ELSE base \o file

\* dict.get(key): None (<<>>) when the key is absent.
DictGet(d, key) == IF key \in Keys(d) THEN <<d.v[key]>> ELSE <<>>

\* dict.get(key, default), for a dict given by its items
DictGetDefault(d, key, default) ==
    IF \E i \in 1..Len(d) : d[i][1] = key
    THEN d[CHOOSE i \in 1..Len(d) : d[i][1] = key][2]
    ELSE default

\* "not schema_name": None and the empty string are falsy.
Falsy(opt) == opt = <<>> \/ opt[1].v = ""

\* _build_context
BuildContext(config) == PyDict([schemas |-> config.schemas])

\* Mutant: the tag names the workflow where it should name the step.
QueryTagContextNamesWorkflow(id, step, workflow) ==
    << <<"omopcloudetl_tool", PyText(<<"WorkflowCompiler">>)>>,
       <<"execution_id", PyText(<<id>>)>>,
       <<"step_name", PyText(<<workflow.workflow_name>>)>>,
       <<"workflow_name", PyText(<<workflow.workflow_name>>)>> >>

\* query_tag_context, in the order the dict literal lists its keys
QueryTagContext(id, step, workflow) ==
    << <<"omopcloudetl_tool", PyText(<<"WorkflowCompiler">>)>>,
       <<"execution_id", PyText(<<id>>)>>,
       <<"step_name", PyText(<<step.name>>)>>,
       <<"workflow_name", PyText(<<workflow.workflow_name>>)>> >>

\* yaml.safe_load and DMLDefinition.model_validate, by the kind of text:
\* one chunk stands for a malformed YAML document, one for a document that
\* has every field of DMLDefinition; any other text (the empty one too) is
\* YAML that fails the model's validation.
MalformedYamlChunk == "key: [unclosed"
ValidDmlChunk == "target_table: person ... mappings: [...] target_schema_ref: "

HasChunk(text, c) == \E i \in 1..Len(text) : text[i] = c

YamlSafeLoad(text) ==
    IF HasChunk(text, MalformedYamlChunk)
    THEN Raised("YAMLError", "while parsing", <<>>)
    ELSE Returned(text)

DMLModelValidate(doc) ==
    IF HasChunk(doc, ValidDmlChunk)
    THEN Returned([dml_definition |-> doc])
    ELSE Raised("ValidationError", "validation error for DMLDefinition", <<>>)

(***************************************************************************)
(* The four branches of the for loop of compile.  Each takes the step, its *)
(* index, and what the outside world answers (the file read, the           *)
(* specification fetch, the generator call), and gives the branch's result *)
(* (the compiled step, or the exception that leaves compile) and the       *)
(* calls to the outside world it made, in order.                           *)
(***************************************************************************)
\* open(path).read() and the generator calls, with what they gave
OpenEffect(k, path, read) == [op |-> "open", step |-> k, path |-> path, read |-> read]
FetchEffect(k, version) == [op |-> "fetch_specification", step |-> k, version |-> version]
SqlGenEffect(k, generated) == [op |-> "generate_transform_sql", step |-> k, generated |-> generated]
DdlGenEffect(k, generated) == [op |-> "generate_ddl", step |-> k, generated |-> generated]

Branch(result, made) == [result |-> result, effects |-> made]

DMLValidationError(path) ==
    Raised("DMLValidationError", "Failed to load, render, or validate DML file",
           << <<"file", path>> >>)

SchemaReferenceError(ref) ==
    Raised("CompilationError", "Schema reference not found in project config",
           << <<"ref", ref>> >>)

\* isinstance(step, DMLWorkflowStep)
CompileDMLStep(step, k, ctx, tag_context, base, read, generated) ==
    LET dml_path == PathJoin(base, step.dml_file)
        opened == <<OpenEffect(k, dml_path, read)>>
    IN  IF ~read.ok THEN Branch(DMLValidationError(dml_path), opened)
        ELSE LET rendered_dml == RenderJinjaTemplate(read.value, ctx)
             IN  IF ~rendered_dml.ok THEN Branch(rendered_dml, opened)
                 ELSE LET loaded == YamlSafeLoad(rendered_dml.value)
                      IN  IF ~loaded.ok THEN Branch(DMLValidationError(dml_path), opened)
                          ELSE LET dml_def == DMLModelValidate(loaded.value)
                               IN  IF ~dml_def.ok
                                   THEN Branch(DMLValidationError(dml_path), opened)
                                   ELSE IF ~generated.ok
                                   THEN Branch(generated, Append(opened, SqlGenEffect(k, generated)))
                                   ELSE Branch(
                                            Returned(CompiledSQLStep(
                                                step.name, step.depends_on,
                                                <<ApplyQueryTag(generated.value, tag_context)>>)),
                                            Append(opened, SqlGenEffect(k, generated)))

\* isinstance(step, DDLWorkflowStep)
CompileDDLStep(step, k, ctx, tag_context, fetched, generated) ==
    LET asked == <<FetchEffect(k, step.cdm_version)>>
        schema_name == DictGet(ctx.v["schemas"], step.target_schema_ref)
    IN  IF ~fetched.ok THEN Branch(fetched, asked)
        ELSE IF Falsy(schema_name)
        THEN Branch(SchemaReferenceError(step.target_schema_ref), asked)
        ELSE IF ~generated.ok
        THEN Branch(generated, Append(asked, DdlGenEffect(k, generated)))
        ELSE Branch(
                 Returned(CompiledSQLStep(
                     step.name, step.depends_on,
                     [i \in 1..Len(generated.value) |->
                         ApplyQueryTag(generated.value[i], tag_context)])),
                 Append(asked, DdlGenEffect(k, generated)))

\* isinstance(step, SQLWorkflowStep)
CompileSQLStep(step, k, ctx, tag_context, base, read) ==
    LET sql_path == PathJoin(base, step.sql_file)
        opened == <<OpenEffect(k, sql_path, read)>>
    IN  IF ~read.ok
        THEN Branch(Raised("CompilationError", "Failed to read SQL file",
                           << <<"file", sql_path>> >>), opened)
        ELSE LET rendered_sql == RenderJinjaTemplate(read.value, ctx)
             IN  IF ~rendered_sql.ok THEN Branch(rendered_sql, opened)
                 ELSE LET sql_statements == SplitSqlScript(rendered_sql.value)
                      IN  Branch(
                              Returned(CompiledSQLStep(
                                  step.name, step.depends_on,
                                  [i \in 1..Len(sql_statements) |->
                                      ApplyQueryTag(sql_statements[i], tag_context)])),
                              opened)

\* isinstance(step, BulkLoadWorkflowStep)
CompileBulkLoadStep(step, k, ctx) ==
    LET schema_name == DictGet(ctx.v["schemas"], step.target_schema_ref)
    IN  IF Falsy(schema_name)
        THEN Branch(SchemaReferenceError(step.target_schema_ref), <<>>)
        ELSE LET resolved_uri == RenderJinjaTemplate(step.source_uri_pattern, ctx)
             IN  IF ~resolved_uri.ok THEN Branch(resolved_uri, <<>>)
                 ELSE Branch(
                          Returned(CompiledBulkLoadStep(
                              step.name, step.depends_on, resolved_uri.value,
                              schema_name[1].v, step.target_table,
                              DictGetDefault(step.options, "source_format_options", <<>>),
                              DictGetDefault(step.options, "load_options", <<>>))),
                          <<>>)

\* Mutant: an exception in the loop body is swallowed and the loop goes on.
PcAfterBestEffort(result) == "loop"

\* An exception raised in the loop body leaves compile; a compiled step
\* lets the loop go on.
PcAfter(result) == IF result.ok THEN "loop" ELSE "failed"

(***************************************************************************)
(* Inputs of compile and answers of the outside world.                     *)
(***************************************************************************)
MaxSteps == 2

WfNames == {"a", "b"}
WfDependsOn == {<<>>, <<"a">>, <<"b">>}
SchemaRefs == {"cdm", "unknown"}
Uuids == {"uuid-1", "uuid-2"}

UriPattern == <<Lit("s3://bucket/"), Expr(<<"schemas", "source">>)>>

\* The options of a bulk_load step: none, the source format options
\* only, both option maps.
SourceFormatOptions == << <<"delimiter", ",">> >>
LoadOptions == << <<"skip_header", TRUE>> >>
BulkLoadOptions ==
    {<<>>,
     << <<"source_format_options", SourceFormatOptions>> >>,
     << <<"source_format_options", SourceFormatOptions>>, <<"load_options", LoadOptions>> >>}

WorkflowSteps ==
    {DMLWorkflowStep(n, d, <<"a.dml">>) : n \in WfNames, d \in WfDependsOn}
    \cup {SQLWorkflowStep(n, d, <<"a.sql">>) : n \in WfNames, d \in WfDependsOn}
    \cup {DDLWorkflowStep(n, d, "5.4", r) : n \in WfNames, d \in WfDependsOn, r \in SchemaRefs}
    \cup {BulkLoadWorkflowStep(n, d, UriPattern, "person", r, o) :
            n \in WfNames, d \in WfDependsOn, r \in SchemaRefs, o \in BulkLoadOptions}

WorkflowConfig(workflow_name, concurrency, steps) ==
    [workflow_name |-> workflow_name, concurrency |-> concurrency, steps |-> steps]

IOError == Raised("IOError", "File not found", <<>>)

\* What open(dml_path).read() can give: no file, a valid mapping, a mapping
\* that references an undefined value, YAML that is not a mapping
\* definition, malformed YAML.
DmlReads ==
    {IOError,
     Returned(<<Lit(ValidDmlChunk), Expr(<<"schemas", "cdm">>)>>),
     Returned(<<Lit("target_table: "), Expr(<<"tables", "undefined">>)>>),
     Returned(<<Lit("key: value")>>),
     Returned(<<Lit(MalformedYamlChunk)>>)}

\* A template without expressions: the units of a text, each a literal.
Lits(text) == [i \in 1..Len(text) |-> Lit(text[i])]

\* What open(sql_path).read() can give: no file, an empty file, blanks
\* and line breaks only, comments only, two statements, a templated
\* statement, and a statement that references an undefined schema.
SqlReads ==
    {IOError,
     Returned(<<>>),
     Returned(Lits(<<" ", "\n", " ">>)),
     Returned(Lits(<<"-", "-", " ", "a comment", ";", "\n",
                     "/", "*", " ", "a block comment", ";", " ", "*", "/", "\n">>)),
     Returned(Lits(<<"SELECT 1", ";", " ", "SELECT 2", ";">>)),
     Returned(<<Lit("SELECT * FROM "), Expr(<<"schemas", "source">>), Lit(".t")>>),
     Returned(<<Lit("SELECT * FROM "), Expr(<<"schemas", "undefined">>), Lit(".t")>>)}

\* What spec_manager.fetch_specification(version) can give.
Fetches(version) ==
    {Raised("SpecificationError", "Could not fetch specification data",
            << <<"version", version>> >>),
     Returned([version |-> version])}

\* What the generator plugins can give: an exception of the plugin's own,
\* or SQL.
PluginError == Raised("PluginError", "generation failed", <<>>)
TransformSqls == {PluginError, Returned(<<"MERGE INTO person">>)}
Ddls == {PluginError, Returned(<<>>),
         Returned(<< <<"CREATE TABLE person">>, <<"CREATE TABLE visit">> >>)}

(***************************************************************************)
(* compile, as a process: the statements before the loop, one action for   *)
(* each kind of step the loop meets, and the return.                       *)
(***************************************************************************)
Idle ==
    /\ project_config = [schemas |-> FixtureSchemas]
    /\ workflow_config = WorkflowConfig("test", 1, <<>>)
    /\ workflow_base_path = <<".">>
    /\ pc = "off"
    /\ execution_id = <<>>
    /\ context = <<>>
    /\ next_step = 0
    /\ compiled_steps = <<>>
    /\ effects = <<>>
    /\ outcome = <<>>

DagIdle == dag_steps = <<>> /\ dag_result = <<>>

RenderIdle ==
    /\ template_str = <<>>
    /\ render_context = PyDict(<<>>)
    /\ render_result = <<>>

TagIdle == tag_call_sql = <<>> /\ tag_call_context = <<>> /\ tag_call_result = <<>>

SplitIdle ==
    script_statements = <<>> /\ split_call_script = <<>> /\ split_call_result = <<>>

AgainIdle == previous_call = <<>>

FetchIdle == spec_cache = <<>> /\ fetch_calls = <<>>

ConfigIdle == config_file = <<>> /\ config_environ = {} /\ config_result = <<>>

Init ==
    /\ project_config = [schemas |-> FixtureSchemas]
    /\ workflow_config \in
          {WorkflowConfig("test_workflow", 1, s) : s \in SeqsUpTo(WorkflowSteps, MaxSteps)}
    /\ workflow_base_path = <<".">>
    /\ pc = "start"
    /\ execution_id = <<>>
    /\ context = <<>>
    /\ next_step = 0
    /\ compiled_steps = <<>>
    /\ effects = <<>>
    /\ outcome = <<>>
    /\ DagIdle
    /\ RenderIdle
    /\ TagIdle
    /\ SplitIdle
    /\ AgainIdle
    /\ FetchIdle
    /\ ConfigIdle

\* execution_id = uuid4(); context = self._build_context();
\* self._validate_dag(workflow_config.steps); compiled_steps = []
StartCompile ==
    /\ pc = "start"
    /\ \E id \in Uuids : execution_id' = <<id>>
    /\ context' = <<BuildContext(project_config)>>
    /\ LET validated == ValidateDag(workflow_config.steps)
       IN  IF validated.ok
           THEN /\ pc' = "loop"
                /\ next_step' = 1
                /\ outcome' = outcome
           ELSE /\ pc' = "failed"
                /\ next_step' = next_step
                /\ outcome' = <<validated>>
    /\ UNCHANGED <<project_config, workflow_config, workflow_base_path,
                   compiled_steps, effects, dag_vars, render_vars, tag_vars, split_vars, again_vars,
                   fetch_vars, config_vars>>

AtStep(type) ==
    /\ pc = "loop"
    /\ next_step <= Len(workflow_config.steps)
    /\ workflow_config.steps[next_step].type = type

CurrentStep == workflow_config.steps[next_step]

CurrentTagContext == QueryTagContext(execution_id[1], CurrentStep, workflow_config)

\* The end of one pass of the loop body: the step is appended, or the
\* exception leaves compile.
EndOfBranch(branch) ==
    /\ effects' = effects \o branch.effects
    /\ pc' = PcAfter(branch.result)
    /\ IF branch.result.ok
       THEN /\ compiled_steps' = Append(compiled_steps, branch.result.value)
            /\ next_step' = next_step + 1
            /\ outcome' = outcome
       ELSE /\ compiled_steps' = compiled_steps
            /\ next_step' = next_step
            /\ outcome' = <<branch.result>>
    /\ UNCHANGED <<project_config, workflow_config, workflow_base_path,
                   execution_id, context, dag_vars, render_vars, tag_vars, split_vars, again_vars,
                   fetch_vars, config_vars>>

DMLStep ==
    /\ AtStep("dml")
    /\ \E read \in DmlReads, generated \in TransformSqls :
          EndOfBranch(CompileDMLStep(CurrentStep, next_step, context[1],
                                     CurrentTagContext, workflow_base_path,
                                     read, generated))

DDLStep ==
    /\ AtStep("ddl")
    /\ \E fetched \in Fetches(CurrentStep.cdm_version), generated \in Ddls :
          EndOfBranch(CompileDDLStep(CurrentStep, next_step, context[1],
                                     CurrentTagContext, fetched, generated))

SQLStep ==
    /\ AtStep("sql")
    /\ \E read \in SqlReads :
          EndOfBranch(CompileSQLStep(CurrentStep, next_step, context[1],
                                     CurrentTagContext, workflow_base_path, read))

BulkLoadStep ==
    /\ AtStep("bulk_load")
    /\ EndOfBranch(CompileBulkLoadStep(CurrentStep, next_step, context[1]))

\* return CompiledWorkflowPlan(...)
ReturnPlan ==
    /\ pc = "loop"
    /\ next_step > Len(workflow_config.steps)
    /\ pc' = "done"
    /\ outcome' = <<Returned(CompiledWorkflowPlan(
                        execution_id[1], workflow_config.workflow_name,
                        workflow_config.concurrency, compiled_steps, context[1]))>>
    /\ UNCHANGED <<project_config, workflow_config, workflow_base_path,
                   execution_id, context, next_step, compiled_steps, effects,
                   dag_vars, render_vars, tag_vars, split_vars, again_vars,
                   fetch_vars, config_vars>>

Next ==
    \/ StartCompile
    \/ DMLStep
    \/ DDLStep
    \/ SQLStep
    \/ BulkLoadStep
    \/ ReturnPlan

Spec == Init /\ [][Next]_vars

(***************************************************************************)
(* SpecDag: _validate_dag applied to every bounded step list.              *)
(***************************************************************************)
DagStep == [name : Names, depends_on : SeqsUpTo(Names, MaxDeps)]

DagInit ==
    /\ dag_steps \in SeqsUpTo(DagStep, MaxDagSteps)
    /\ dag_result = <<>>
    /\ RenderIdle
    /\ Idle
    /\ TagIdle
    /\ SplitIdle
    /\ AgainIdle
    /\ FetchIdle
    /\ ConfigIdle

CallValidateDag ==
    /\ dag_result = <<>>
    /\ dag_result' = <<ValidateDag(dag_steps)>>
    /\ UNCHANGED <<dag_steps, render_vars, compile_vars, tag_vars, split_vars, again_vars,
                   fetch_vars, config_vars>>

DagNext == CallValidateDag

SpecDag == DagInit /\ [][DagNext]_vars

(***************************************************************************)
(* SpecRender: render_jinja_template applied to every bounded template.    *)
(***************************************************************************)
RenderInit ==
    /\ template_str \in SeqsUpTo(Parts, MaxParts)
    /\ render_context \in RenderContexts
    /\ render_result = <<>>
    /\ DagIdle
    /\ Idle
    /\ TagIdle
    /\ SplitIdle
    /\ AgainIdle
    /\ FetchIdle
    /\ ConfigIdle

CallRender ==
    /\ render_result = <<>>
    /\ render_result' = <<RenderJinjaTemplate(template_str, render_context)>>
    /\ UNCHANGED <<template_str, render_context, dag_vars, compile_vars, tag_vars, split_vars, again_vars,
                   fetch_vars, config_vars>>

RenderNext == CallRender

SpecRender == RenderInit /\ [][RenderNext]_vars

(***************************************************************************)
(* SpecTag: apply_query_tag applied to every bounded SQL text and context. *)
(***************************************************************************)
MaxKeys == 2

TagKeys == {"step_name", "workflow_name", "execution_id"}

\* Context values: plain names, strings that hold a double quote, a
\* backslash, a line break or the end-of-comment marker, an integer, a
\* boolean, a list and a dict.
TagValues ==
    {PyText(<<"step1">>),
     PyText(<<"say", " ", "\"", "hi", "\"">>),
     PyText(<<"C:", "\\", "n">>),
     PyText(<<"line1", "\n", "line2">>),
     PyText(<<"x", " ", "*", "/", " ", "DROP TABLE t", ";">>),
     PyInt(42),
     PyBool(TRUE),
     PyList(<<PyText(<<"a">>), PyInt(1)>>),
     PyMapping(<< <<"k", PyText(<<"v">>)>> >>)}

\* A dict has each key once.
TagContexts ==
    {c \in SeqsUpTo(TagKeys \X TagValues, MaxKeys) :
        \A i, j \in 1..Len(c) : c[i][1] = c[j][1] => i = j}

TagSqls == {<<"SELECT 1", ";">>,
            <<"SELECT", " ", "'", "*", "/", "'", "\n", "FROM t", ";">>}

TagInit ==
    /\ tag_call_sql \in TagSqls
    /\ tag_call_context \in TagContexts
    /\ tag_call_result = <<>>
    /\ DagIdle
    /\ RenderIdle
    /\ Idle
    /\ SplitIdle
    /\ AgainIdle
    /\ FetchIdle
    /\ ConfigIdle

CallApplyQueryTag ==
    /\ tag_call_result = <<>>
    /\ tag_call_result' = <<ApplyQueryTag(tag_call_sql, tag_call_context)>>
    /\ UNCHANGED <<tag_call_sql, tag_call_context, dag_vars, render_vars,
                   compile_vars, split_vars, again_vars,
                   fetch_vars, config_vars>>

TagNext == CallApplyQueryTag

SpecTag == TagInit /\ [][TagNext]_vars

(***************************************************************************)
(* SpecSplit: split_sql_script applied to every bounded script that is     *)
(* written as a list of statements.  A statement is what stands before it  *)
(* (blanks, comments), its body and its semicolon; a body is a sequence of *)
(* segments: code, quoted literals, comments and blanks.  After the last   *)
(* statement the script may end with a comment.                            *)
(***************************************************************************)
MaxStatements == 2

Code(text) == [kind |-> "code", text |-> text]
Literal(text) == [kind |-> "literal", text |-> text]
Comment(text) == [kind |-> "comment", text |-> text]
Blank(text) == [kind |-> "blank", text |-> text]

LineComment == Comment(<<"-", "-", " ", "it", "'", "s", ";", "\n">>)
BlockComment == Comment(<<"/", "*", " ", "it", "'", "s", ";", "\n", "*", "/">>)

\* A plain statement; a semicolon in a single-quoted literal with a
\* doubled quote, in a double-quoted literal and a backtick-quoted name,
\* in two dollar-quoted literals; a block comment and a line comment
\* inside the statement; a literal that holds the comment markers, inside
\* parentheses.
StatementBodies ==
    {<<Code(<<"SELECT 1">>)>>,
     <<Code(<<"SELECT">>), Blank(<<" ">>), Literal(<<"'", "it", "'", "'", "s", ";", "'">>)>>,
     <<Code(<<"SELECT">>), Blank(<<" ">>), Literal(<<"\"", "hello", ";", "world", "\"">>),
       Blank(<<" ">>), Literal(<<Backtick, "hello", ";", "world", Backtick>>)>>,
     <<Code(<<"SELECT">>), Blank(<<" ">>), Literal(<<"$", "$", "hello", ";", "world", "$", "$">>),
       Blank(<<" ">>), Literal(<<"$", "tag", "$", "it", "'", "s", ";", "$", "tag", "$">>)>>,
     <<Code(<<"SELECT 1">>), Blank(<<" ">>), BlockComment, Blank(<<" ">>), Code(<<"FROM t">>)>>,
     <<Code(<<"SELECT 1">>), Blank(<<" ">>), LineComment, Code(<<"FROM t">>)>>,
     <<Code(<<"SELECT">>), Blank(<<" ">>), Code(<<"f", "(">>),
       Literal(<<"'", "-", "-", ";", "/", "*", "'">>), Code(<<")">>)>>}

StatementPrefixes ==
    {<<>>,
     <<Blank(<<"\n">>)>>,
     <<Blank(<<" ">>), LineComment>>,
     <<Blank(<<"\n">>), BlockComment, Blank(<<"\n">>)>>}

ScriptEndings == {<<>>, <<Blank(<<" ">>), Comment(<<"-", "-", " ", "end", ";">>)>>}

ScriptStatement == [before : StatementPrefixes, body : StatementBodies]

\* The text of a sequence of segments
SegmentsText(segments) == Concat([i \in 1..Len(segments) |-> segments[i].text])

\* The text of a script: each statement with its semicolon, then the ending
ScriptText(statements, ending) ==
    Concat([i \in 1..Len(statements) |->
              SegmentsText(statements[i].before) \o SegmentsText(statements[i].body)
                  \o <<";">>])
        \o SegmentsText(ending)

SplitInit ==
    /\ script_statements \in SeqsUpTo(ScriptStatement, MaxStatements)
    /\ \E ending \in ScriptEndings :
          split_call_script = ScriptText(script_statements, ending)
    /\ split_call_result = <<>>
    /\ DagIdle
    /\ RenderIdle
    /\ Idle
    /\ TagIdle
    /\ AgainIdle
    /\ FetchIdle
    /\ ConfigIdle

CallSplitSqlScript ==
    /\ split_call_result = <<>>
    /\ split_call_result' = <<SplitSqlScript(split_call_script)>>
    /\ UNCHANGED <<script_statements, split_call_script, dag_vars, render_vars,
                   compile_vars, tag_vars, again_vars,
                   fetch_vars, config_vars>>

SplitNext == CallSplitSqlScript

SpecSplit == SplitInit /\ [][SplitNext]_vars

(***************************************************************************)
(* SpecTwice: compile called twice on one compiler, over the same workflow *)
(* configuration and base path.  The files and the generator plugins are   *)
(* the same in both calls: a file read or a generator call that the first  *)
(* call made gives the second call what it gave the first.  uuid4() and    *)
(* the specification manager answer each call on their own.                *)
(***************************************************************************)
\* The workflows compiled twice: steps of the four kinds that depend on
\* nothing and whose schema reference is mapped.
TwiceSteps ==
    {step \in WorkflowSteps :
        /\ step.depends_on = <<>>
        /\ step.type \in {"ddl", "bulk_load"} => step.target_schema_ref = "cdm"
        /\ step.type = "bulk_load" => Len(step.options) = 2}

TwiceInit ==
    /\ project_config = [schemas |-> FixtureSchemas]
    /\ workflow_config \in
          {WorkflowConfig("test_workflow", 1, s) : s \in SeqsUpTo(TwiceSteps, MaxSteps)}
    /\ workflow_base_path = <<".">>
    /\ pc = "start"
    /\ execution_id = <<>>
    /\ context = <<>>
    /\ next_step = 0
    /\ compiled_steps = <<>>
    /\ effects = <<>>
    /\ outcome = <<>>
    /\ DagIdle
    /\ RenderIdle
    /\ TagIdle
    /\ SplitIdle
    /\ AgainIdle
    /\ FetchIdle
    /\ ConfigIdle

\* the first call has returned or raised; compile is called again
CompileAgain ==
    /\ pc \in {"done", "failed"}
    /\ previous_call = <<>>
    /\ previous_call' = <<[execution_id |-> execution_id[1],
                           outcome |-> outcome[1],
                           effects |-> effects]>>
    /\ pc' = "start"
    /\ execution_id' = <<>>
    /\ context' = <<>>
    /\ next_step' = 0
    /\ compiled_steps' = <<>>
    /\ effects' = <<>>
    /\ outcome' = <<>>
    /\ UNCHANGED <<project_config, workflow_config, workflow_base_path,
                   dag_vars, render_vars, tag_vars, split_vars,
                   fetch_vars, config_vars>>

\* the calls whose answer is the content of a file or the output of a plugin
AnsweredBySameWorld == {"open", "generate_transform_sql", "generate_ddl"}

SameFilesAndGenerators ==
    \/ previous_call = <<>>
    \/ \A i \in DOMAIN effects, j \in DOMAIN previous_call[1].effects :
          (/\ effects[i].op \in AnsweredBySameWorld
           /\ effects[i].op = previous_call[1].effects[j].op
           /\ effects[i].step = previous_call[1].effects[j].step)
          => effects[i] = previous_call[1].effects[j]

TwiceNext ==
    \/ CompileAgain
    \/ (Next /\ SameFilesAndGenerators')

SpecTwice == TwiceInit /\ [][TwiceNext]_vars

(***************************************************************************)
(* SpecificationManager (specifications/manager.py).  A CSV text is the    *)
(* sequence of its rows, a row the sequence of its cells, which is what    *)
(* csv.reader gives for it.  The repository the URLs point to and the      *)
(* files of the local directories do not change while the calls run; a     *)
(* request may fail at any attempt.                                        *)
(***************************************************************************)
\* stop=stop_after_attempt(3)
StopAfterAttempt == 3

BASE_URL == "https://raw.githubusercontent.com/OHDSI/CommonDataModel/master"

\* str.lower() and str.upper(), on the words of the CSV files used here
Lower(s) ==
    CASE s = "PERSON" -> "person"
      [] s = "PERSON_ID" -> "person_id"
      [] s = "GENDER_CONCEPT_ID" -> "gender_concept_id"
      [] s = "VISIT" -> "visit"
      [] s = "VISIT_ID" -> "visit_id"
      [] s = "VISIT_ID,PERSON_ID" -> "visit_id,person_id"
      [] s = "Yes" -> "yes"
      [] s = "No" -> "no"
      [] OTHER -> s

Upper(s) ==
    CASE s = "bigint" -> "BIGINT"
      [] s = "integer" -> "INTEGER"
      [] OTHER -> s

\* row[1].lower().split(","): a cell is split where it holds a comma
SplitCommas(s) ==
    IF s = "visit_id,person_id" THEN <<"visit_id", "person_id">> ELSE <<s>>

CDMFieldSpec(name, type, required, description) ==
    [name |-> name, type |-> type, required |-> required, description |-> description]

CDMTableSpec(name, fields, primary_key) ==
    [name |-> name, fields |-> fields, primary_key |-> primary_key]

CDMSpecification(version, tables) == [version |-> version, tables |-> tables]

ParseError(version) ==
    Raised("SpecificationError", "Failed to parse specification for version",
           << <<"version", version>> >>)

\* primary_keys.get(table_name, []): of the rows of a table, the last one
\* stands in the dict
PrimaryKeyOf(pk_rows, table_name) ==
    LET rows == {k \in 1..Len(pk_rows) : Lower(pk_rows[k][1]) = table_name}
    IN  IF rows = {} THEN <<>>
        ELSE SplitCommas(Lower(pk_rows[CHOOSE k \in rows : \A j \in rows : j <= k][2]))

FieldOfRow(row) ==
    CDMFieldSpec(Lower(row[2]), Upper(row[4]), Lower(row[3]) \in {"yes", "true", "1"},
                 IF row[9] = "" THEN <<>> ELSE <<row[9]>>)

\* _parse_specification: next() of a file without rows and the index of a
\* cell that a row does not have raise, and every exception becomes a
\* SpecificationError
ParseSpecification(version, field_csv, pk_csv) ==
    IF \/ pk_csv = <<>>
       \/ field_csv = <<>>
       \/ \E k \in 2..Len(pk_csv) : Len(pk_csv[k]) < 2
       \/ \E k \in 2..Len(field_csv) : Len(field_csv[k]) < 9
    THEN ParseError(version)
    ELSE LET pk_rows == Tail(pk_csv)
             field_rows == Tail(field_csv)
             names == {Lower(field_rows[k][1]) : k \in 1..Len(field_rows)}
         IN  Returned(CDMSpecification(
                 version,
                 [n \in names |->
                     CDMTableSpec(
                         n,
                         LET mine == SelectSeq(field_rows, LAMBDA row : Lower(row[1]) = n)
                         IN  [k \in 1..Len(mine) |-> FieldOfRow(mine[k])],
                         PrimaryKeyOf(pk_rows, n))]))

\* the CSV files: the header line, then a line for each field or table
FieldHeader == <<"cdmTableName", "cdmFieldName", "isRequired", "cdmDatatype", "userGuidance", "etlConventions", "isPrimaryKey", "isForeignKey", "description">>
PkHeader == <<"cdmTableName", "primaryKey">>

PersonFields ==
    <<FieldHeader,
      <<"PERSON", "PERSON_ID", "Yes", "bigint", "", "", "Yes", "No", "A unique identifier for each person.">>,
      <<"PERSON", "GENDER_CONCEPT_ID", "No", "integer", "", "", "No", "Yes", "">> >>
PersonKeys == <<PkHeader, <<"PERSON", "PERSON_ID">> >>

VisitFields ==
    <<FieldHeader,
      <<"VISIT", "VISIT_ID", "Yes", "bigint", "", "", "Yes", "No", "">> >>
VisitKeys == <<PkHeader, <<"VISIT", "VISIT_ID,PERSON_ID">> >>

\* a file whose lines have six cells
ShortFields ==
    <<<<"cdmTableName", "cdmFieldName", "isPrimaryKey", "isRequired", "cdmDatatype", "description">>,
      <<"PERSON", "PERSON_ID", "Yes", "Yes", "BIGINT", "A unique identifier for each person.">> >>

CdmVersions == {"v5.4", "v6.0"}

FieldUrl(version) ==
    <<BASE_URL, "/", "OMOP%20CDM%20", version, "/OMOP_CDM_", version, "_FIELD_LEVEL.csv">>
PkUrl(version) ==
    <<BASE_URL, "/", "OMOP%20CDM%20", version, "/OMOP_CDM_", version, "_Primary_Keys.csv">>

\* response.text of a request that the server answers: v5.4 is well
\* formed, the field file of v6.0 has short lines
ResponseText(url) ==
    CASE url = FieldUrl("v5.4") -> PersonFields
      [] url = PkUrl("v5.4") -> PersonKeys
      [] url = FieldUrl("v6.0") -> ShortFields
      [] OTHER -> PersonKeys

\* The local directories: one with well-formed files (of other content
\* than the repository's), one whose primary key file is empty, one
\* without the files.  A file that does not exist is <<>>, a file that
\* exists is <<rows>>.
LocalPaths == {"specs/visit", "specs/empty", "specs/none"}

FieldFile(local_path, version) ==
    CASE local_path = "specs/visit" -> <<VisitFields>>
      [] local_path = "specs/empty" -> <<PersonFields>>
      [] OTHER -> <<>>

PkFile(local_path, version) ==
    CASE local_path = "specs/visit" -> <<VisitKeys>>
      [] local_path = "specs/empty" -> << <<>> >>
      [] OTHER -> <<>>

\* What the network does at each attempt of one _fetch_url_content call.
NetworkAnswers == [1..StopAfterAttempt -> {"200", "RequestException"}]

FetchError(url) ==
    Raised("SpecificationError", "Could not fetch specification data from", << <<"url", url>> >>)

\* tenacity.RetryError: what @retry raises when the last attempt failed
RetryError == Raised("RetryError", "RetryError", <<>>)

\* the body of _fetch_url_content, once
FetchUrlContentOnce(url, answer) ==
    IF answer = "200" THEN Returned(ResponseText(url)) ELSE FetchError(url)

\* _fetch_url_content under @retry: the body is called again after an
\* exception, up to StopAfterAttempt times in all, and then RetryError is
\* raised in place of the exception of the body.
RECURSIVE FetchUrlContent(_, _, _)
FetchUrlContent(url, network, attempt) ==
    LET tried == FetchUrlContentOnce(url, network[attempt])
    IN  IF tried.ok THEN [result |-> tried, requests |-> attempt]
        ELSE IF attempt >= StopAfterAttempt
        THEN [result |-> RetryError, requests |-> attempt]
        ELSE FetchUrlContent(url, network, attempt + 1)

\* diskcache.Cache, as the sequence of its <<key, value>> items
CacheKey(version) == <<"cdm_spec_", version>>

\* Mutant: the key is never found in the cache.
ContainsNever(entries, key) == FALSE

\* cache_key in self.cache
Contains(entries, key) == \E i \in 1..Len(entries) : entries[i][1] = key

\* self.cache[cache_key]
CacheGet(entries, key) == entries[CHOOSE i \in 1..Len(entries) : entries[i][1] = key][2]

\* self.cache[cache_key] = spec
CacheSet(entries, key, value) ==
    IF Contains(entries, key)
    THEN [i \in 1..Len(entries) |->
             IF entries[i][1] = key THEN <<key, value>> ELSE entries[i]]
    ELSE Append(entries, <<key, value>>)

\* Mutant: what the parser gave is stored whether it is a catalog or not.
CacheAfterParseAlways(entries, key, parsed) ==
    CacheSet(entries, key, IF parsed.ok THEN parsed.value ELSE parsed)

\* spec = self._parse_specification(...); self.cache[cache_key] = spec:
\* the assignment is not reached when the parser raises
CacheAfterParse(entries, key, parsed) ==
    IF parsed.ok THEN CacheSet(entries, key, parsed.value) ELSE entries

(***************************************************************************)
(* SpecFetch: up to MaxCalls calls of fetch_specification, by managers     *)
(* that share one cache directory, interleaved at the cache accesses, the  *)
(* file reads and the requests.                                            *)
(***************************************************************************)
MaxCalls == 2

\* A call: its arguments, where it is, its locals, what it did (the
\* requests it sent, whether it wrote the cache), and whether a call for
\* the same version had returned a catalog when it began.
FetchCall(version, local_path, at, began_after_success) ==
    [version |-> version, local_path |-> local_path, pc |-> at,
     field_csv_content |-> <<>>, pk_csv_content |-> <<>>,
     requests |-> 0, wrote |-> FALSE, result |-> <<>>,
     began_after_success |-> began_after_success]

Ended(call, result) == [call EXCEPT !.pc = "done", !.result = <<result>>]

ReturnedCatalog(call) == call.pc = "done" /\ call.result[1].ok

FetchInit ==
    /\ spec_cache = <<>>
    /\ fetch_calls = <<>>
    /\ DagIdle
    /\ RenderIdle
    /\ Idle
    /\ TagIdle
    /\ SplitIdle
    /\ AgainIdle
    /\ ConfigIdle

\* fetch_specification(version, local_path): cache_key in self.cache
BeginFetch ==
    /\ Len(fetch_calls) < MaxCalls
    /\ \E version \in CdmVersions, local_path \in {<<>>} \cup {<<p>> : p \in LocalPaths} :
          fetch_calls' = Append(fetch_calls,
              FetchCall(version, local_path,
                        IF Contains(spec_cache, CacheKey(version)) THEN "cached" ELSE "load",
                        \E k \in 1..Len(fetch_calls) :
                            /\ fetch_calls[k].version = version
                            /\ ReturnedCatalog(fetch_calls[k])))
    /\ UNCHANGED <<spec_cache, dag_vars, render_vars, compile_vars, tag_vars,
                   split_vars, again_vars, config_vars>>

\* return self.cache[cache_key]
ReturnCached(p) ==
    /\ fetch_calls[p].pc = "cached"
    /\ fetch_calls' = [fetch_calls EXCEPT ![p] =
          Ended(@, Returned(CacheGet(spec_cache, CacheKey(@.version))))]
    /\ UNCHANGED <<spec_cache, dag_vars, render_vars, compile_vars, tag_vars,
                   split_vars, again_vars, config_vars>>

\* if local_path: the two files are looked for and read
ReadLocalFiles(p) ==
    /\ fetch_calls[p].pc = "load"
    /\ fetch_calls[p].local_path # <<>>
    /\ LET call == fetch_calls[p]
           field_file == FieldFile(call.local_path[1], call.version)
           pk_file == PkFile(call.local_path[1], call.version)
       IN  fetch_calls' = [fetch_calls EXCEPT ![p] =
              IF field_file = <<>> \/ pk_file = <<>>
              THEN Ended(@, Raised("SpecificationError",
                                   "Local specification files not found in",
                                   << <<"local_path", call.local_path[1]>> >>))
              ELSE [@ EXCEPT !.pc = "parse",
                             !.field_csv_content = field_file,
                             !.pk_csv_content = pk_file]]
    /\ UNCHANGED <<spec_cache, dag_vars, render_vars, compile_vars, tag_vars,
                   split_vars, again_vars, config_vars>>

\* field_csv_content = self._fetch_url_content(field_url)
FetchFieldCsv(p) ==
    /\ fetch_calls[p].pc = "load"
    /\ fetch_calls[p].local_path = <<>>
    /\ \E network \in NetworkAnswers :
          LET fetched == FetchUrlContent(FieldUrl(fetch_calls[p].version), network, 1)
          IN  fetch_calls' = [fetch_calls EXCEPT ![p] =
                 IF fetched.result.ok
                 THEN [@ EXCEPT !.pc = "fetch_pk",
                                !.requests = @ + fetched.requests,
                                !.field_csv_content = <<fetched.result.value>>]
                 ELSE [Ended(@, fetched.result) EXCEPT !.requests = @ + fetched.requests]]
    /\ UNCHANGED <<spec_cache, dag_vars, render_vars, compile_vars, tag_vars,
                   split_vars, again_vars, config_vars>>

\* pk_csv_content = self._fetch_url_content(pk_url)
FetchPkCsv(p) ==
    /\ fetch_calls[p].pc = "fetch_pk"
    /\ \E network \in NetworkAnswers :
          LET fetched == FetchUrlContent(PkUrl(fetch_calls[p].version), network, 1)
          IN  fetch_calls' = [fetch_calls EXCEPT ![p] =
                 IF fetched.result.ok
                 THEN [@ EXCEPT !.pc = "parse",
                                !.requests = @ + fetched.requests,
                                !.pk_csv_content = <<fetched.result.value>>]
                 ELSE [Ended(@, fetched.result) EXCEPT !.requests = @ + fetched.requests]]
    /\ UNCHANGED <<spec_cache, dag_vars, render_vars, compile_vars, tag_vars,
                   split_vars, again_vars, config_vars>>

\* spec = self._parse_specification(...); self.cache[cache_key] = spec;
\* return spec
ParseAndStore(p) ==
    /\ fetch_calls[p].pc = "parse"
    /\ LET call == fetch_calls[p]
           parsed == ParseSpecification(call.version, call.field_csv_content[1],
                                        call.pk_csv_content[1])
       IN  /\ spec_cache' = CacheAfterParse(spec_cache, CacheKey(call.version), parsed)
           /\ fetch_calls' = [fetch_calls EXCEPT ![p] =
                 [Ended(@, parsed) EXCEPT !.wrote = spec_cache' # spec_cache \/ parsed.ok]]
    /\ UNCHANGED <<dag_vars, render_vars, compile_vars, tag_vars,
                   split_vars, again_vars, config_vars>>

FetchNext ==
    \/ BeginFetch
    \/ \E p \in 1..Len(fetch_calls) :
          \/ ReturnCached(p)
          \/ ReadLocalFiles(p)
          \/ FetchFieldCsv(p)
          \/ FetchPkCsv(p)
          \/ ParseAndStore(p)

SpecFetch == FetchInit /\ [][FetchNext]_vars

(***************************************************************************)
(* ConfigManager.load_project_config (config/manager.py).  The file is the *)
(* sequence of its lines.  yaml.safe_load is modelled on the lines used    *)
(* here: a line that holds a top-level key with a flow mapping, a list     *)
(* item, a plain scalar, the empty flow mapping, and a line with an        *)
(* unclosed brace.                                                         *)
(***************************************************************************)
PyNone == [t |-> "none"]

MalformedConfigLine == "connection: { provider_type: test_db"
ListItemLines == {"- item1", "- item2"}
ScalarLine == "just text"
EmptyMappingLine == "{}"

ConnectionLines ==
    {"connection: {provider_type: test_db}",
     "connection: {host: localhost}",
     "connection: {provider_type: test_db, password_secret_id: DB_PASSWORD_SECRET}",
     "connection: {provider_type: test_db, password_secret_id: DB_PASSWORD_SECRET, password: direct_password}"}
OrchestratorLine == "orchestrator: {type: local}"
SchemasLine == "schemas: {source: raw, target: cdm}"
SecretsLine == "secrets: {provider_type: environment}"

\* a line "key: {k: v, ...}" as <<key, items>>; <<>> for any other line
KeyLine(line) ==
    CASE line = "connection: {provider_type: test_db}" ->
            <<"connection", << <<"provider_type", "test_db">> >> >>
      [] line = "connection: {host: localhost}" ->
            <<"connection", << <<"host", "localhost">> >> >>
      [] line = "connection: {provider_type: test_db, password_secret_id: DB_PASSWORD_SECRET}" ->
            <<"connection", << <<"provider_type", "test_db">>,
                               <<"password_secret_id", "DB_PASSWORD_SECRET">> >> >>
      [] line = "connection: {provider_type: test_db, password_secret_id: DB_PASSWORD_SECRET, password: direct_password}" ->
            <<"connection", << <<"provider_type", "test_db">>,
                               <<"password_secret_id", "DB_PASSWORD_SECRET">>,
                               <<"password", "direct_password">> >> >>
      [] line = OrchestratorLine -> <<"orchestrator", << <<"type", "local">> >> >>
      [] line = SchemasLine -> <<"schemas", << <<"source", "raw">>, <<"target", "cdm">> >> >>
      [] line = SecretsLine -> <<"secrets", << <<"provider_type", "environment">> >> >>
      [] OTHER -> <<>>

\* yaml.safe_load(f)
YamlSafeLoadDocument(lines) ==
    IF lines = <<>> THEN Returned(PyNone)
    ELSE IF \E i \in 1..Len(lines) : lines[i] = MalformedConfigLine
    THEN Raised("YAMLError", "while parsing a flow mapping", <<>>)
    ELSE IF \A i \in 1..Len(lines) : KeyLine(lines[i]) # <<>>
    THEN Returned(PyMapping([i \in 1..Len(lines) |-> KeyLine(lines[i])]))
    ELSE IF \A i \in 1..Len(lines) : lines[i] \in ListItemLines
    THEN Returned(PyList(lines))
    ELSE IF lines = <<EmptyMappingLine>> THEN Returned(PyMapping(<<>>))
    ELSE IF lines = <<ScalarLine>> THEN Returned(PyText(lines))
    ELSE Raised("YAMLError", "while parsing a block mapping", <<>>)

\* "not config_data"
FalsyData(data) ==
    \/ data.t = "none"
    \/ data.t = "mapping" /\ data.pairs = <<>>
    \/ data.t = "list" /\ data.items = <<>>
    \/ data.t = "text" /\ data.units = <<>>

HasKey(pairs, key) == \E i \in 1..Len(pairs) : pairs[i][1] = key

\* an Optional field of a model: <<>> when the key is not given
OptionalField(pairs, key) == IF HasKey(pairs, key) THEN <<DictGetDefault(pairs, key, "")>> ELSE <<>>

ConnectionConfig(pairs) ==
    [provider_type |-> DictGetDefault(pairs, "provider_type", ""),
     password |-> OptionalField(pairs, "password"),
     password_secret_id |-> OptionalField(pairs, "password_secret_id")]

\* ProjectConfig(**config_data): the ** of a value that is not a mapping
\* is a TypeError; a required field that is missing is a ValidationError;
\* check_secrets_configured_for_secret_id raises ConfigurationError
ProjectConfigModel(data) ==
    IF data.t # "mapping"
    THEN Raised("TypeError", "argument after ** must be a mapping", <<>>)
    ELSE LET given == data.pairs
             connection == DictGetDefault(given, "connection", <<>>)
         IN  IF \/ ~HasKey(given, "connection")
                \/ ~HasKey(given, "orchestrator")
                \/ ~HasKey(given, "schemas")
                \/ ~HasKey(connection, "provider_type")
             THEN Raised("ValidationError", "validation error for ProjectConfig", <<>>)
             ELSE IF /\ HasKey(connection, "password_secret_id")
                     /\ ~HasKey(connection, "password")
                     /\ ~HasKey(given, "secrets")
             THEN Raised("ConfigurationError", "A secrets provider must be configured", <<>>)
             ELSE Returned([connection |-> ConnectionConfig(connection),
                            orchestrator |-> DictGetDefault(given, "orchestrator", <<>>),
                            schemas |-> DictGetDefault(given, "schemas", <<>>),
                            secrets |-> OptionalField(given, "secrets")])

ConfigurationError(kind) == Raised("ConfigurationError", kind, <<>>)

\* EnvironmentSecretsProvider.get_secret
GetSecret(environ, secret_identifier) ==
    IF \E e \in environ : e[1] = secret_identifier
    THEN Returned((CHOOSE e \in environ : e[1] = secret_identifier)[2])
    ELSE Raised("SecretAccessError", "Secret not found in environment", <<>>)

\* the secret resolution at the end of load_project_config
ResolveSecrets(config, environ) ==
    IF /\ config.secrets # <<>>
       /\ config.connection.password_secret_id # <<>>
       /\ config.connection.password = <<>>
    THEN LET resolved_password == GetSecret(environ, config.connection.password_secret_id[1])
         IN  IF resolved_password.ok
             THEN Returned([config EXCEPT !.connection.password = <<resolved_password.value>>])
             ELSE ConfigurationError("Failed to resolve secret")
    ELSE Returned(config)

\* load_project_config(config_path); at is <<>> when config_path is not a
\* file, else <<the lines of the file>>
LoadProjectConfig(at, environ) ==
    IF at = <<>> THEN ConfigurationError("Configuration file not found at")
    ELSE LET config_data == YamlSafeLoadDocument(at[1])
         IN  IF ~config_data.ok THEN ConfigurationError("Error parsing YAML configuration file")
             ELSE IF FalsyData(config_data.value)
             THEN ConfigurationError("Configuration file is empty.")
             ELSE LET validated == ProjectConfigModel(config_data.value)
                  IN  IF validated.ok THEN ResolveSecrets(validated.value, environ)
                      ELSE IF validated.cls \in {"ValidationError", "ConfigurationError"}
                      THEN ConfigurationError("Configuration validation failed")
                      ELSE validated

(***************************************************************************)
(* SpecConfig: load_project_config applied to each configuration file.     *)
(***************************************************************************)
\* the lines that are given, in the order of the keys
Document(lines) == SelectSeq(lines, LAMBDA line : line # "")

ConfigDocuments ==
    {Document(<<c, o, s, x>>) :
        c \in ConnectionLines \cup {""}, o \in {OrchestratorLine, ""},
        s \in {SchemasLine, ""}, x \in {SecretsLine, ""}}
    \cup {<<EmptyMappingLine>>, <<"- item1", "- item2">>, <<ScalarLine>>,
          <<MalformedConfigLine>>, <<"- item1", SchemasLine>>}

ConfigFiles == {<<>>} \cup {<<document>> : document \in ConfigDocuments}

Environs == {{}, {<<"DB_PASSWORD_SECRET", "supersecretpassword">>}}

ConfigInit ==
    /\ config_file \in ConfigFiles
    /\ config_environ \in Environs
    /\ config_result = <<>>
    /\ DagIdle
    /\ RenderIdle
    /\ Idle
    /\ TagIdle
    /\ SplitIdle
    /\ AgainIdle
    /\ FetchIdle

CallLoadProjectConfig ==
    /\ config_result = <<>>
    /\ config_result' = <<LoadProjectConfig(config_file, config_environ)>>
    /\ UNCHANGED <<config_file, config_environ, dag_vars, render_vars, compile_vars,
                   tag_vars, split_vars, again_vars, fetch_vars>>

ConfigNext == CallLoadProjectConfig

SpecConfig == ConfigInit /\ [][ConfigNext]_vars

(***************************************************************************)
(* compile on any project and workflow the models accept: a schema         *)
(* reference may be mapped to the empty string (ProjectConfig.schemas is a *)
(* Dict[str, str]), and a file name may be absolute where the step model   *)
(* has no validator for it.                                                *)
(***************************************************************************)
\* Path(v).is_absolute()
IsAbsolute(path) == path # <<>> /\ Head(path) = "/"

\* SQLWorkflowStep.must_be_relative_path, the only path validator of the
\* step models
MustBeRelativePath(v) ==
    IF IsAbsolute(v)
    THEN Raised("ValueError", "sql_file path must be relative", <<>>)
    ELSE Returned(v)

\* pydantic validation of one step of a WorkflowConfig
ValidateStep(step) ==
    IF step.type = "sql" THEN MustBeRelativePath(step.sql_file) ELSE Returned(step)

AnySchemas ==
    PyDict([source |-> PyStr("raw"), cdm |-> PyStr("cdm_schema"), staging |-> PyStr("")])
AnySchemaRefs == {"cdm", "unknown", "staging"}
AnyFiles(name) == {<<name>>, <<"/", "etc", name>>}

\* steps that depend on nothing, before validation
AnyStepInputs ==
    {DMLWorkflowStep(n, <<>>, f) : n \in WfNames, f \in AnyFiles("a.dml")}
    \cup {SQLWorkflowStep(n, <<>>, f) : n \in WfNames, f \in AnyFiles("a.sql")}
    \cup {DDLWorkflowStep(n, <<>>, "5.4", r) : n \in WfNames, r \in AnySchemaRefs}
    \cup {BulkLoadWorkflowStep(n, <<>>, UriPattern, "person", r, <<>>) :
            n \in WfNames, r \in AnySchemaRefs}

\* the steps a WorkflowConfig can hold
AnySteps == {step \in AnyStepInputs : ValidateStep(step).ok}

AnyInit ==
    /\ project_config = [schemas |-> AnySchemas]
    /\ workflow_config \in
          {WorkflowConfig("test_workflow", 1, s) : s \in SeqsUpTo(AnySteps, MaxSteps)}
    /\ workflow_base_path = <<".">>
    /\ pc = "start"
    /\ execution_id = <<>>
    /\ context = <<>>
    /\ next_step = 0
    /\ compiled_steps = <<>>
    /\ effects = <<>>
    /\ outcome = <<>>
    /\ DagIdle
    /\ RenderIdle
    /\ TagIdle
    /\ SplitIdle
    /\ AgainIdle
    /\ FetchIdle
    /\ ConfigIdle

SpecAny == AnyInit /\ [][Next]_vars

(***************************************************************************)
(* Properties.  The dependency graph is described here independently of    *)
(* the way _validate_dag examines it: by the dependencies as declared and  *)
(* by the closed walks among the step names.                               *)
(***************************************************************************)
DependsOn(steps, name, dep) ==
    \E k \in 1..Len(steps) :
        /\ steps[k].name = name
        /\ \E j \in 1..Len(steps[k].depends_on) : steps[k].depends_on[j] = dep

AllDependenciesDefined(steps) ==
    \A k \in 1..Len(steps) : \A j \in 1..Len(steps[k].depends_on) :
        \E m \in 1..Len(steps) : steps[m].name = steps[k].depends_on[j]

\* A cycle: names n1 .. nm (m >= 1) with n1 -> n2 -> .. -> nm -> n1, each
\* arrow a declared dependency.
HasCycle(steps) ==
    \E walk \in SeqsUpTo(StepNameSet(steps), Cardinality(StepNameSet(steps))) :
        /\ walk # <<>>
        /\ \A i \in 1..Len(walk) :
              DependsOn(steps, walk[(i % Len(walk)) + 1], walk[i])

HasSelfLoop(steps) == \E n \in StepNameSet(steps) : DependsOn(steps, n, n)

IsCycleError(r) == ~r.ok /\ r.cls = "WorkflowError" /\ r.kind = "cycle"

Arg(r, label) == {r.args[i][2] : i \in {j \in 1..Len(r.args) : r.args[j][1] = label}}

\* C1: _validate_dag returns normally exactly when every dependency names
\* a step of the list and the dependency graph has no cycle; with all
\* dependencies defined, a self-loop or a longer cycle gives the
\* WorkflowError that reports a cycle.
C1_DagValidatesExactlyAcyclic ==
    dag_result # <<>> =>
        /\ dag_result[1].ok <=>
              (AllDependenciesDefined(dag_steps) /\ ~HasCycle(dag_steps))
        /\ (AllDependenciesDefined(dag_steps) /\ HasCycle(dag_steps))
              => IsCycleError(dag_result[1])

C1_Witness ==
    /\ dag_result # <<>>
    /\ IsCycleError(dag_result[1])
    /\ HasSelfLoop(dag_steps)
    /\ Len(dag_steps) = 2

\* C2: when some depends_on entry names no step of the list, _validate_dag
\* raises the undefined-dependency WorkflowError, and the message names a
\* step of the list and a name in that step's depends_on that no step has.
C2_UndefinedDependencyReported ==
    (dag_result # <<>> /\ ~AllDependenciesDefined(dag_steps)) =>
        /\ ~dag_result[1].ok
        /\ dag_result[1].cls = "WorkflowError"
        /\ dag_result[1].kind = "undefined_dependency"
        /\ \E s \in Arg(dag_result[1], "step"), d \in Arg(dag_result[1], "dep") :
              /\ DependsOn(dag_steps, s, d)
              /\ d \notin StepNameSet(dag_steps)

C2_Witness ==
    /\ dag_result # <<>>
    /\ ~dag_result[1].ok
    /\ dag_result[1].kind = "undefined_dependency"
    /\ Len(dag_steps) = 2
    /\ dag_steps[1].depends_on = <<>>
    /\ dag_steps[2].depends_on # <<>>

Failed == pc = "failed" /\ outcome # <<>> /\ ~outcome[1].ok
FailedAtStep == Failed /\ next_step >= 1
FailedStep == workflow_config.steps[next_step]

EffectsOfStep(k) == {i \in 1..Len(effects) : effects[i].step = k}
EffectsOfStepDoing(k, op) == {i \in EffectsOfStep(k) : effects[i].op = op}

\* C3: compile ends either with an exception or with a plan, never both;
\* once an exception has been raised compile has stopped, no plan exists,
\* and no file was opened, no specification fetched and no generator
\* called for a step after the one that failed; a plan has a compiled step
\* for every input step.
C3_NoPartialPlan ==
    /\ (outcome # <<>> /\ ~outcome[1].ok) =>
          /\ pc = "failed"
          /\ \A i \in 1..Len(effects) : effects[i].step <= next_step
    /\ (outcome # <<>> /\ outcome[1].ok) =>
          /\ pc = "done"
          /\ Len(outcome[1].value.steps) = Len(workflow_config.steps)
    /\ pc \in {"done", "failed"} => outcome # <<>>

C3_Witness ==
    /\ FailedAtStep
    /\ next_step = 1
    /\ Len(workflow_config.steps) > next_step
    /\ effects # <<>>

\* C4: when every dependency is defined and the dependency graph has a
\* cycle, compile stops at DAG validation with the cycle error: no file is
\* opened, no specification fetched and no generator called, before or
\* after.
C4_CycleFailsBeforeAnyStep ==
    (AllDependenciesDefined(workflow_config.steps) /\ HasCycle(workflow_config.steps)) =>
        /\ effects = <<>>
        /\ compiled_steps = <<>>
        /\ pc \in {"start", "failed"}
        /\ pc = "failed" => (outcome # <<>> /\ IsCycleError(outcome[1]))

C4_Witness ==
    /\ Failed
    /\ IsCycleError(outcome[1])
    /\ Len(workflow_config.steps) = 2
    /\ workflow_config.steps[1].name = "a"
    /\ workflow_config.steps[1].depends_on = <<"b">>
    /\ workflow_config.steps[2].name = "b"
    /\ workflow_config.steps[2].depends_on = <<"a">>

IsSchemaReferenceError(r) ==
    /\ ~r.ok
    /\ r.cls = "CompilationError"
    /\ r.kind = "Schema reference not found in project config"

\* C5 (as claimed): for a ddl step whose target_schema_ref is not in the
\* schema mapping, fetch_specification is never called, and when compile
\* fails at that step it fails with the schema-reference error.
C5_NoFetchForMissingSchemaRef ==
    \A k \in 1..Len(workflow_config.steps) :
        (/\ workflow_config.steps[k].type = "ddl"
         /\ workflow_config.steps[k].target_schema_ref \notin Keys(project_config.schemas))
        => /\ EffectsOfStepDoing(k, "fetch_specification") = {}
           /\ (FailedAtStep /\ next_step = k) => IsSchemaReferenceError(outcome[1])

\* C6: a returned plan has one compiled step per input step, in the input
\* order, each with the name and depends_on of the input step at its
\* position.
C6_PlanMirrorsSteps ==
    pc = "done" =>
        LET plan == outcome[1].value
        IN  /\ Len(plan.steps) = Len(workflow_config.steps)
            /\ \A k \in 1..Len(plan.steps) :
                  /\ plan.steps[k].name = workflow_config.steps[k].name
                  /\ plan.steps[k].depends_on = workflow_config.steps[k].depends_on

C6_Witness ==
    /\ pc = "done"
    /\ Len(outcome[1].value.steps) = 2
    /\ outcome[1].value.steps[1].name = "b"
    /\ outcome[1].value.steps[2].name = "a"
    /\ outcome[1].value.steps[2].depends_on = <<"b">>

\* C7 (as claimed): when compile fails at a dml step before the SQL
\* generator is called (the file could not be read, rendered or
\* validated), the exception is a DMLValidationError naming the file.
C7_DmlFailuresAreDMLValidationErrors ==
    (/\ FailedAtStep
     /\ FailedStep.type = "dml"
     /\ EffectsOfStepDoing(next_step, "generate_transform_sql") = {})
    => /\ outcome[1].cls = "DMLValidationError"
       /\ Arg(outcome[1], "file") = {PathJoin(workflow_base_path, FailedStep.dml_file)}

\* The names a context defines: a path is present in the context when its
\* first name is a key of the context and every further name is a key of
\* the dict reached so far.
RECURSIVE PresentIn(_, _)
PresentIn(obj, names) ==
    \/ names = <<>>
    \/ /\ obj.t = "dict"
       /\ Head(names) \in Keys(obj)
       /\ PresentIn(obj.v[Head(names)], Tail(names))

ReferencesAbsentName(template, ctx) ==
    \E i \in 1..Len(template) :
        template[i].k = "expr" /\ ~PresentIn(ctx, template[i].path)

\* C8 (as claimed): a template that references a name not present in the
\* context, at any depth, never renders: the call ends in the rendering
\* error.
C8_AbsentNameNeverRenders ==
    (render_result # <<>> /\ ReferencesAbsentName(template_str, render_context)) =>
        /\ ~render_result[1].ok
        /\ render_result[1].cls = "CompilationError"
        /\ render_result[1].kind = "Jinja rendering failed"

CompilationDomainErrors == {"WorkflowError", "CompilationError", "DMLValidationError"}

\* C9 (as claimed): an exception that leaves compile from the loop over
\* the steps is a compilation-domain error whose message names the step.
C9_StepFailuresNameTheStep ==
    FailedAtStep =>
        /\ outcome[1].cls \in CompilationDomainErrors
        /\ FailedStep.name \in Arg(outcome[1], "step")

\* C10 (as claimed): the context compile builds, and the snapshot in the
\* plan, hold the schema mapping and the execution identifier.
C10_ContextHasSchemasAndExecutionId ==
    /\ context # <<>> =>
          /\ "schemas" \in Keys(context[1])
          /\ context[1].v["schemas"] = project_config.schemas
          /\ "execution_id" \in Keys(context[1])
    /\ pc = "done" =>
          "execution_id" \in Keys(outcome[1].value.context_snapshot)

DuplicateStepNames(steps) ==
    \E i, j \in 1..Len(steps) : i # j /\ steps[i].name = steps[j].name

\* C11 (as claimed): a workflow in which two steps share a name is rejected
\* by DAG validation: compile stops there with an exception, compiles no
\* step and returns no plan.
C11_DuplicateNamesRejected ==
    DuplicateStepNames(workflow_config.steps) =>
        /\ pc \in {"start", "failed"}
        /\ compiled_steps = <<>>
        /\ pc = "failed" => next_step = 0

\* A walk n1 .. nm (m >= 1) of step names is a cycle of the steps when
\* each name is a dependency of the next and the last one of the first.
IsCycleOf(steps, walk) ==
    /\ walk # <<>>
    /\ \A i \in 1..Len(walk) :
          DependsOn(steps, walk[(i % Len(walk)) + 1], walk[i])

\* C12 (as claimed): the error _validate_dag raises for a cycle carries a
\* sequence of step names that is a cycle of the steps.
C12_CycleErrorReportsCycle ==
    (dag_result # <<>> /\ IsCycleError(dag_result[1])) =>
        \E walk \in Arg(dag_result[1], "cycle") : IsCycleOf(dag_steps, walk)

SqlOpens == {i \in 1..Len(effects) :
                /\ effects[i].op = "open"
                /\ workflow_config.steps[effects[i].step].type = "sql"}

\* A text without any statement: nothing but blanks, line breaks and
\* comments.
NoStatement(text) ==
    LET tokens == Tokenize(text, 1)
    IN  \A i \in 1..Len(tokens) : IsComment(tokens[i]) \/ IsWhitespaceToken(tokens[i])

RendersToNoStatement(read) ==
    /\ read.ok
    /\ RenderJinjaTemplate(read.value, context[1]).ok
    /\ NoStatement(RenderJinjaTemplate(read.value, context[1]).value)

\* C13: when the file of a sql step renders to a text without any
\* statement (empty, whitespace only, comments only), the step does not
\* fail: it compiles to one CompiledSQLStep with the step's name and
\* dependencies and an empty statement list.
C13_NoStatementCompilesToEmptyList ==
    \A i \in SqlOpens :
        RendersToNoStatement(effects[i].read) =>
            LET k == effects[i].step
            IN  /\ ~(Failed /\ next_step = k)
                /\ Len(compiled_steps) >= k
                /\ compiled_steps[k] =
                      CompiledSQLStep(workflow_config.steps[k].name,
                                      workflow_config.steps[k].depends_on, <<>>)

C13_Witness ==
    \E i \in SqlOpens :
        /\ RendersToNoStatement(effects[i].read)
        /\ \E j \in 1..Len(effects[i].read.value) : effects[i].read.value[j].s = ";"
        /\ compiled_steps[effects[i].step].sql_statements = <<>>
        /\ pc = "done"

\* The bulk_load steps whose schema reference is mapped to a schema name
\* and whose URI pattern renders.
ResolvableBulkLoads ==
    {k \in 1..Len(workflow_config.steps) :
        /\ workflow_config.steps[k].type = "bulk_load"
        /\ workflow_config.steps[k].target_schema_ref \in Keys(project_config.schemas)
        /\ project_config.schemas.v[workflow_config.steps[k].target_schema_ref].v # ""
        /\ RenderJinjaTemplate(workflow_config.steps[k].source_uri_pattern,
                               BuildContext(project_config)).ok}

\* The option map a step gives under a key: every item with that key
\* gives it, and without such an item it is the empty map.
IsOptionMapOf(map, options, key) ==
    /\ \A i \in 1..Len(options) : options[i][1] = key => map = options[i][2]
    /\ (\A i \in 1..Len(options) : options[i][1] # key) => map = <<>>

JsonIntegers == 0..99

RECURSIVE SkipBlanks(_, _)
SkipBlanks(text, i) ==
    IF i <= Len(text) /\ text[i] = " " THEN SkipBlanks(text, i + 1) ELSE i

Parsed(value, next) == [ok |-> TRUE, value |-> value, next |-> next]
NotParsed == [ok |-> FALSE, value |-> <<>>, next |-> 0]

\* A JSON string from the position after its opening quote: the
\* characters up to the closing quote, each backslash escape read as the
\* character it stands for; a bare line break is not allowed.
RECURSIVE ParseString(_, _, _)
ParseString(text, i, units) ==
    IF i > Len(text) \/ text[i] = "\n" THEN NotParsed
    ELSE IF text[i] = "\"" THEN Parsed(units, i + 1)
    ELSE IF text[i] # "\\" THEN ParseString(text, i + 1, Append(units, text[i]))
    ELSE IF i + 1 > Len(text) THEN NotParsed
    ELSE IF text[i + 1] = "n" THEN ParseString(text, i + 2, Append(units, "\n"))
    ELSE IF text[i + 1] \in {"\"", "\\"}
    THEN ParseString(text, i + 2, Append(units, text[i + 1]))
    ELSE NotParsed

RECURSIVE ParseValue(_, _)
RECURSIVE ParseElements(_, _, _)
RECURSIVE ParseMembers(_, _, _)
ParseValue(text, i) ==
    IF i > Len(text) THEN NotParsed
    ELSE IF text[i] = "\""
    THEN LET r == ParseString(text, i + 1, <<>>)
         IN  IF r.ok THEN Parsed(PyText(r.value), r.next) ELSE NotParsed
    ELSE IF text[i] = "true" THEN Parsed(PyBool(TRUE), i + 1)
    ELSE IF text[i] = "false" THEN Parsed(PyBool(FALSE), i + 1)
    ELSE IF text[i] = "["
    THEN LET j == SkipBlanks(text, i + 1)
         IN  IF j <= Len(text) /\ text[j] = "]"
             THEN Parsed(PyList(<<>>), j + 1)
             ELSE ParseElements(text, i + 1, <<>>)
    ELSE IF text[i] = "{"
    THEN LET j == SkipBlanks(text, i + 1)
         IN  IF j <= Len(text) /\ text[j] = "}"
             THEN Parsed(PyMapping(<<>>), j + 1)
             ELSE ParseMembers(text, i + 1, <<>>)
    ELSE IF \E n \in JsonIntegers : ToString(n) = text[i]
    THEN Parsed(PyInt(CHOOSE n \in JsonIntegers : ToString(n) = text[i]), i + 1)
    ELSE NotParsed

ParseElements(text, i, items) ==
    LET r == ParseValue(text, SkipBlanks(text, i))
        j == SkipBlanks(text, r.next)
    IN  IF ~r.ok \/ j > Len(text) THEN NotParsed
        ELSE IF text[j] = "," THEN ParseElements(text, j + 1, Append(items, r.value))
        ELSE IF text[j] = "]" THEN Parsed(PyList(Append(items, r.value)), j + 1)
        ELSE NotParsed

\* The members of an object; a key is kept as the text between its quotes.
ParseMembers(text, i, pairs) ==
    LET k == SkipBlanks(text, i)
        key == ParseString(text, k + 1, <<>>)
        c == SkipBlanks(text, key.next)
        r == ParseValue(text, SkipBlanks(text, c + 1))
        j == SkipBlanks(text, r.next)
        member == <<key.value, r.value>>
    IN  IF k > Len(text) \/ text[k] # "\"" \/ ~key.ok THEN NotParsed
        ELSE IF c > Len(text) \/ text[c] # ":" \/ ~r.ok \/ j > Len(text) THEN NotParsed
        ELSE IF text[j] = "," THEN ParseMembers(text, j + 1, Append(pairs, member))
        ELSE IF text[j] = "}" THEN Parsed(PyMapping(Append(pairs, member)), j + 1)
        ELSE NotParsed

\* json.loads: the whole text is one value
JsonLoads(text) ==
    LET r == ParseValue(text, SkipBlanks(text, 1))
    IN  IF r.ok /\ SkipBlanks(text, r.next) > Len(text) THEN r ELSE NotParsed

\* The position of the first line break of a text, 0 when it has none.
FirstLineBreak(text) ==
    IF \E i \in 1..Len(text) : text[i] = "\n"
    THEN CHOOSE i \in 1..Len(text) : text[i] = "\n" /\ \A j \in 1..(i - 1) : text[j] # "\n"
    ELSE 0

\* tagged_sql.split("\n")[0]
FirstLine(text) ==
    IF FirstLineBreak(text) = 0 THEN text ELSE SubSeq(text, 1, FirstLineBreak(text) - 1)

StartsWith(text, prefix) ==
    Len(text) >= Len(prefix) /\ SubSeq(text, 1, Len(prefix)) = prefix

EndsWith(text, suffix) ==
    Len(text) >= Len(suffix) /\ SubSeq(text, Len(text) - Len(suffix) + 1, Len(text)) = suffix

\* What lies between the tag label and the closing marker of the first line.
TagPayload(tagged) ==
    SubSeq(FirstLine(tagged), Len(TagLabel) + 1, Len(FirstLine(tagged)) - Len(TagEnd))

Items(pairs) == {pairs[i] : i \in 1..Len(pairs)}

\* The orders in which the items of a dict can have been inserted.
InsertionOrders(pairs) ==
    {c \in [1..Len(pairs) -> Items(pairs)] : Items(c) = Items(pairs)}

\* C15 (as claimed): the tag does not depend on the order in which the
\* items of the context were inserted: a context with the same items in
\* another order gives the same tagged SQL.
C15_TagIndependentOfInsertionOrder ==
    tag_call_result # <<>> =>
        \A other \in InsertionOrders(tag_call_context) :
            ApplyQueryTag(tag_call_sql, other) = tag_call_result[1]

IsScalar(value) == value.t \in {"text", "int", "bool"}

AllScalar(pairs) == \A i \in 1..Len(pairs) : IsScalar(pairs[i][2])

\* The items of a parsed object are those of the context: as many, and
\* each key with its value.
SameItemsAsContext(object, pairs) ==
    /\ object.t = "mapping"
    /\ Len(object.pairs) = Len(pairs)
    /\ Items(object.pairs) = {<< <<pairs[i][1]>>, pairs[i][2] >> : i \in 1..Len(pairs)}

\* C16: for a context of scalar values, the tagged SQL is the tag, one
\* line break and the original SQL unchanged: the first line starts with
\* the tag label and ends with the closing marker, the text after the
\* first line break is the SQL, and what lies between the label and the
\* closing marker parses as JSON to exactly the items of the context.
C16_TagThenSqlAndPayloadRoundTrip ==
    (tag_call_result # <<>> /\ AllScalar(tag_call_context)) =>
        LET tagged == tag_call_result[1]
        IN  /\ FirstLineBreak(tagged) # 0
            /\ SubSeq(tagged, FirstLineBreak(tagged) + 1, Len(tagged)) = tag_call_sql
            /\ StartsWith(FirstLine(tagged), TagLabel)
            /\ EndsWith(FirstLine(tagged), TagEnd)
            /\ JsonLoads(TagPayload(tagged)).ok
            /\ SameItemsAsContext(JsonLoads(TagPayload(tagged)).value, tag_call_context)

HasUnit(value, u) ==
    value.t = "text" /\ \E i \in 1..Len(value.units) : value.units[i] = u

C16_Witness ==
    /\ tag_call_result # <<>>
    /\ AllScalar(tag_call_context)
    /\ Len(tag_call_context) = 2
    /\ HasUnit(tag_call_context[1][2], "\n")
    /\ HasUnit(tag_call_context[2][2], "\"")
    /\ FirstLineBreak(tag_call_sql) # 0
    /\ SameItemsAsContext(JsonLoads(TagPayload(tag_call_result[1])).value, tag_call_context)

AllText(pairs) == \A i \in 1..Len(pairs) : pairs[i][2].t = "text"

\* C17 (as claimed): for a context of strings, whatever they hold, the
\* tag is one line and is one comment: the tagged SQL is the tag, a line
\* break and the SQL, the tag holds no line break, and the end-of-comment
\* marker occurs in the tag only as its last two characters.
C17_TagIsOneSingleLineComment ==
    (tag_call_result # <<>> /\ AllText(tag_call_context)) =>
        LET tagged == tag_call_result[1]
            tag_len == Len(tagged) - Len(tag_call_sql) - 1
        IN  /\ tagged[1] = "/" /\ tagged[2] = "*"
            /\ tagged[tag_len + 1] = "\n"
            /\ \A i \in 1..tag_len : tagged[i] # "\n"
            /\ \A i \in 3..(tag_len - 1) :
                  (tagged[i] = "*" /\ tagged[i + 1] = "/") => i + 1 = tag_len
            /\ tagged[tag_len - 1] = "*" /\ tagged[tag_len] = "/"

\* C18 (as claimed): the payload of the tag is a flat object: no value in
\* it is an array or an object, whatever the context holds.
C18_NoNestedStructureInTag ==
    tag_call_result # <<>> =>
        LET payload == JsonLoads(TagPayload(tag_call_result[1]))
        IN  /\ payload.ok
            /\ payload.value.t = "mapping"
            /\ \A i \in 1..Len(payload.value.pairs) :
                  payload.value.pairs[i][2].t \notin {"list", "mapping"}

\* A text without its blanks and line breaks
Solid(text) == SelectSeq(text, LAMBDA u : u \notin WhitespaceChunks)

\* What a statement body says: its code and its literals, in order
CodeAndLiterals(body) ==
    SegmentsText(SelectSeq(body, LAMBDA g : g.kind \in {"code", "literal"}))

\* C19: for a script written as N statements, each ended by a semicolon,
\* with comments between and inside the statements and with semicolons
\* inside quoted literals and comments, split_sql_script returns N
\* statements; the i-th is not empty, not whitespace only, and is, blanks
\* aside, the code and the literals of the i-th statement of the script,
\* every literal whole.
C19_OneStatementPerSemicolonTerminatedStatement ==
    split_call_result # <<>> =>
        LET statements == split_call_result[1]
        IN  /\ Len(statements) = Len(script_statements)
            /\ \A i \in 1..Len(statements) :
                  /\ Solid(statements[i]) # <<>>
                  /\ Solid(statements[i]) = CodeAndLiterals(script_statements[i].body)

C19_Witness ==
    /\ split_call_result # <<>>
    /\ Len(split_call_result[1]) = 2
    /\ \E i \in 1..Len(script_statements[1].body) :
          /\ script_statements[1].body[i].kind = "literal"
          /\ script_statements[1].body[i].text[1] = "$"
    /\ \E i \in 1..Len(script_statements[2].body) :
          script_statements[2].body[i].kind = "comment"
    /\ script_statements[2].before # <<>>
    /\ split_call_script[Len(split_call_script)] = ";"
    /\ split_call_script[Len(split_call_script) - 1] = "end"

(***************************************************************************)
(* Two calls of compile compared: a plan with its execution identifier     *)
(* taken out, from the plan's own field and from the query tag that heads  *)
(* each SQL statement.                                                     *)
(***************************************************************************)
NoExecutionId == "<execution_id>"

\* the statement, with the identifier replaced where it stands in the tag
\* (the first line of the statement)
WithoutIdInTag(statement, id) ==
    [i \in 1..Len(statement) |->
        IF statement[i] = id /\ (FirstLineBreak(statement) = 0 \/ i < FirstLineBreak(statement))
        THEN NoExecutionId
        ELSE statement[i]]

StepWithoutId(step, id) ==
    IF step.type = "sql"
    THEN [step EXCEPT !.sql_statements =
             [i \in 1..Len(step.sql_statements) |-> WithoutIdInTag(step.sql_statements[i], id)]]
    ELSE step

PlanWithoutId(plan) ==
    [plan EXCEPT !.execution_id = NoExecutionId,
                 !.steps = [k \in 1..Len(plan.steps) |->
                               StepWithoutId(plan.steps[k], plan.execution_id)]]

BothCallsReturnedPlans ==
    /\ previous_call # <<>>
    /\ previous_call[1].outcome.ok
    /\ pc = "done"

FetchCalls == {fetch_calls[p] : p \in 1..Len(fetch_calls)}

\* a call for this version stored this catalog
StoredBySomeCall(version, catalog) ==
    \E call \in FetchCalls :
        /\ call.wrote
        /\ call.version = version
        /\ call.result = <<Returned(catalog)>>

\* C21: a call of fetch_specification(v) that begins after a call of
\* fetch_specification(v) on the same cache has returned a catalog sends
\* no request, reads no file and writes nothing; what it returns is a
\* catalog of version v that a call for v stored in the cache.
C21_LaterFetchIsServedFromCache ==
    \A call \in FetchCalls :
        call.began_after_success =>
            /\ call.pc \in {"cached", "done"}
            /\ call.requests = 0
            /\ call.field_csv_content = <<>>
            /\ ~call.wrote
            /\ call.pc = "done" =>
                  /\ call.result[1].ok
                  /\ call.result[1].value.version = call.version
                  /\ StoredBySomeCall(call.version, call.result[1].value)

\* a download, then a call for the same version with a local path that is
\* served from the cache, while the other version is not in the cache
C21_Witness ==
    /\ Len(fetch_calls) = 2
    /\ fetch_calls[1].requests = 2
    /\ ReturnedCatalog(fetch_calls[1])
    /\ fetch_calls[2].began_after_success
    /\ fetch_calls[2].local_path # <<>>
    /\ ReturnedCatalog(fetch_calls[2])
    /\ Len(spec_cache) = 1

\* C22: no call waits for another one (a call that has not ended can
\* always take its next step); two calls for one version that returned a
\* catalog returned the same one, and the cache holds it under the
\* version's key.
C22_ConcurrentFetchesAgree ==
    /\ \A p \in 1..Len(fetch_calls) :
          fetch_calls[p].pc # "done" =>
              ENABLED (\/ ReturnCached(p) \/ ReadLocalFiles(p) \/ FetchFieldCsv(p)
                       \/ FetchPkCsv(p) \/ ParseAndStore(p))
    /\ \A one, other \in FetchCalls :
          (/\ ReturnedCatalog(one)
           /\ ReturnedCatalog(other)
           /\ one.version = other.version)
          => /\ one.result = other.result
             /\ Contains(spec_cache, CacheKey(one.version))
             /\ CacheGet(spec_cache, CacheKey(one.version)) = one.result[1].value

\* the call sent requests and ended without the primary key file: a
\* download failed at its last attempt
DownloadFailed(call) ==
    /\ call.pc = "done"
    /\ call.requests > 0
    /\ call.pk_csv_content = <<>>

\* C23: a call whose download failed at every attempt raises a
\* SpecificationError.
C23_DownloadFailureIsSpecificationError ==
    \A call \in FetchCalls :
        DownloadFailed(call) =>
            /\ ~call.result[1].ok
            /\ call.result[1].cls = "SpecificationError"

\* C29: a call that ended in an error wrote nothing to the cache; every
\* entry of the cache is a catalog that a call for its version stored and
\* returned; and a call finds its version in the cache only when a call
\* for that version has returned a catalog, so that after failures only
\* the load is attempted again.
C29_FailedFetchLeavesCacheUnchanged ==
    /\ \A call \in FetchCalls :
          /\ (call.pc = "done" /\ ~call.result[1].ok) => ~call.wrote
          /\ call.pc = "cached" => call.began_after_success
          /\ (call.pc = "done" /\ ~call.began_after_success /\ call.result[1].ok)
                => call.field_csv_content # <<>>
    /\ \A i \in 1..Len(spec_cache) :
          \E version \in CdmVersions :
              /\ spec_cache[i][1] = CacheKey(version)
              /\ StoredBySomeCall(version, spec_cache[i][2])

\* a parse failure and a download failure, each followed by a call for
\* the same version that loads again
C29_Witness ==
    /\ Len(fetch_calls) = 2
    /\ fetch_calls[1].pc = "done"
    /\ ~fetch_calls[1].result[1].ok
    /\ fetch_calls[1].field_csv_content # <<>>
    /\ fetch_calls[1].pk_csv_content # <<>>
    /\ fetch_calls[2].version = fetch_calls[1].version
    /\ ~fetch_calls[2].began_after_success
    /\ fetch_calls[2].field_csv_content # <<>>
    /\ spec_cache = <<>>

\* C30: a call with a local path that returns a catalog returns the one
\* parsed from the files of that path.
C30_LocalPathCatalogIsFromLocalFiles ==
    \A call \in FetchCalls :
        (ReturnedCatalog(call) /\ call.local_path # <<>>) =>
            LET field_file == FieldFile(call.local_path[1], call.version)
                pk_file == PkFile(call.local_path[1], call.version)
            IN  /\ field_file # <<>>
                /\ pk_file # <<>>
                /\ call.result[1] = ParseSpecification(call.version, field_file[1], pk_file[1])

(***************************************************************************)
(* Properties of load_project_config.  The invalid files are described by  *)
(* their lines, not by what the loader makes of them.                      *)
(***************************************************************************)
Lines == IF config_file = <<>> THEN <<>> ELSE config_file[1]

HasLine(line) == \E i \in 1..Len(Lines) : Lines[i] = line

MissingFile == config_file = <<>>
EmptyFile == config_file = << <<>> >>
MalformedFile == HasLine(MalformedConfigLine)
NotAMapping == ~MalformedFile /\ (HasLine("- item1") \/ HasLine(ScalarLine))
MissingRequiredField ==
    /\ ~MissingFile /\ ~EmptyFile /\ ~MalformedFile /\ ~NotAMapping
    /\ \/ ~HasLine(OrchestratorLine)
       \/ ~HasLine(SchemasLine)
       \/ ~\E line \in ConnectionLines \ {"connection: {host: localhost}"} : HasLine(line)

\* C24: load_project_config raises ConfigurationError for a missing file,
\* malformed YAML, an empty file, YAML whose top level is not a mapping,
\* and content that lacks a required field; and whatever it raises is a
\* ConfigurationError.
C24_InvalidConfigIsConfigurationError ==
    config_result # <<>> =>
        /\ (MissingFile \/ EmptyFile \/ MalformedFile \/ NotAMapping \/ MissingRequiredField)
              => ~config_result[1].ok
        /\ ~config_result[1].ok => config_result[1].cls = "ConfigurationError"

(***************************************************************************)
(* Properties of the returned plan.                                        *)
(***************************************************************************)
\* C25: in a returned plan every name in a compiled step's depends_on is
\* the name of a compiled step of the plan, and the dependencies of the
\* compiled steps form no cycle.
C25_PlanDependenciesWellFormed ==
    pc = "done" =>
        /\ AllDependenciesDefined(outcome[1].value.steps)
        /\ ~HasCycle(outcome[1].value.steps)

\* a plan of two steps of which the first depends on the second
C25_Witness ==
    /\ pc = "done"
    /\ Len(outcome[1].value.steps) = 2
    /\ outcome[1].value.steps[1].name # outcome[1].value.steps[2].name
    /\ outcome[1].value.steps[1].depends_on = <<outcome[1].value.steps[2].name>>
    /\ outcome[1].value.steps[2].depends_on = <<>>

\* the tag of a statement, read back: the value of a key of the JSON
\* object on the first line, <<>> when there is no such object or key
TagField(statement, key) ==
    LET parsed == JsonLoads(TagPayload(statement))
    IN  IF /\ StartsWith(statement, TagLabel)
           /\ EndsWith(FirstLine(statement), TagEnd)
           /\ parsed.ok
           /\ parsed.value.t = "mapping"
           /\ \E i \in 1..Len(parsed.value.pairs) : parsed.value.pairs[i][1] = <<key>>
        THEN <<DictGetDefault(parsed.value.pairs, <<key>>, PyText(<<>>))>>
        ELSE <<>>

\* C26: in a returned plan every statement of every CompiledSQLStep
\* begins with a query tag whose execution_id is the plan's, whose
\* step_name is the name of the compiled step that holds the statement,
\* and whose workflow_name is the plan's workflow name.
C26_EveryStatementCarriesItsTag ==
    pc = "done" =>
        LET plan == outcome[1].value
        IN  \A k \in 1..Len(plan.steps) :
                plan.steps[k].type = "sql" =>
                    \A i \in 1..Len(plan.steps[k].sql_statements) :
                        LET statement == plan.steps[k].sql_statements[i]
                        IN  /\ TagField(statement, "execution_id") = <<PyText(<<plan.execution_id>>)>>
                            /\ TagField(statement, "step_name") = <<PyText(<<plan.steps[k].name>>)>>
                            /\ TagField(statement, "workflow_name") = <<PyText(<<plan.workflow_name>>)>>

\* a plan with the statements of a SQL file and those of a generator, in
\* steps of different names
C26_Witness ==
    /\ pc = "done"
    /\ Len(outcome[1].value.steps) = 2
    /\ outcome[1].value.steps[1].name # outcome[1].value.steps[2].name
    /\ workflow_config.steps[1].type = "sql"
    /\ Len(outcome[1].value.steps[1].sql_statements) = 2
    /\ workflow_config.steps[2].type \in {"dml", "ddl"}
    /\ Len(outcome[1].value.steps[2].sql_statements) > 0

(***************************************************************************)
(* Schema references and file paths on any accepted input (SpecAny).       *)
(***************************************************************************)
\* compile has dealt with step k: it compiled it or failed at it
DealtWith(k) == \/ pc \in {"loop", "done"} /\ k < next_step
                \/ FailedAtStep /\ next_step = k

FailsWithSchemaReferenceError(k) ==
    FailedAtStep /\ next_step = k /\ IsSchemaReferenceError(outcome[1])

\* C27 (as claimed): a ddl or bulk_load step that compile has dealt with
\* fails with the schema-reference error exactly when its
\* target_schema_ref is not a key of the schema mapping; a reference that
\* is a key, the one mapped to the empty string included, does not fail
\* with that error.
C27_SchemaReferenceErrorIffNotAKey ==
    \A k \in 1..Len(workflow_config.steps) :
        (/\ workflow_config.steps[k].type \in {"ddl", "bulk_load"}
         /\ DealtWith(k))
        => (FailsWithSchemaReferenceError(k)
            <=> workflow_config.steps[k].target_schema_ref
                    \notin Keys(project_config.schemas))

\* the file name of a dml or sql step
StepFile(step) == IF step.type = "dml" THEN step.dml_file ELSE step.sql_file

\* C28 (as claimed): every file compile opens for a dml or sql step is
\* workflow_base_path joined with the step's file name, that name being
\* relative; no file is opened for a step whose file name is absolute,
\* and compile compiles no such step.
C28_OpenedFilesAreUnderBasePath ==
    /\ \A i \in 1..Len(effects) :
          effects[i].op = "open" =>
              LET file == StepFile(workflow_config.steps[effects[i].step])
              IN  /\ effects[i].path = PathJoin(workflow_base_path, file)
                  /\ ~IsAbsolute(file)
    /\ \A k \in 1..Len(workflow_config.steps) :
          (/\ workflow_config.steps[k].type \in {"dml", "sql"}
           /\ IsAbsolute(StepFile(workflow_config.steps[k])))
          => EffectsOfStep(k) = {} /\ ~DealtWith(k)

====
